---- MODULE Spec2Model ----
(***************************************************************************)
(* Asynchronous-analysis client of the document processing accelerator:    *)
(* submit_document and poll_for_results of src/src/utils.py, composed in   *)
(* the order analyze_document calls them.                                  *)
(*                                                                         *)
(* Text that the code inspects character by character (status strings,     *)
(* which are lower-cased, and HTTP header names, which the requests        *)
(* library compares case-insensitively) is a sequence of one-character     *)
(* strings.  Text that the code only passes along (URLs, keys, messages)   *)
(* is a plain string.                                                      *)
(***************************************************************************)
EXTENDS Integers, Sequences, FiniteSets, TLC

----------------------------------------------------------------------------
(* Bounds of the model *)

\* poll_for_results is called with max_retries in 0..MaxRetries and with
\* retry_interval in 1..MaxInterval (seconds): both are parameters that callers
\* may set, and the small values stand in for the defaults 60 and 2.
MaxRetries == 3
MaxInterval == 2

\* the longest list of confidences given to the quality assessor alone
MaxConfidences == 3

----------------------------------------------------------------------------
(* Text helpers *)

\* str.lower() on one character (ASCII letters; every other character is kept)
LowerChar(c) ==
    CASE c = "A" -> "a" [] c = "B" -> "b" [] c = "C" -> "c" [] c = "D" -> "d"
      [] c = "E" -> "e" [] c = "F" -> "f" [] c = "G" -> "g" [] c = "H" -> "h"
      [] c = "I" -> "i" [] c = "J" -> "j" [] c = "K" -> "k" [] c = "L" -> "l"
      [] c = "M" -> "m" [] c = "N" -> "n" [] c = "O" -> "o" [] c = "P" -> "p"
      [] c = "Q" -> "q" [] c = "R" -> "r" [] c = "S" -> "s" [] c = "T" -> "t"
      [] c = "U" -> "u" [] c = "V" -> "v" [] c = "W" -> "w" [] c = "X" -> "x"
      [] c = "Y" -> "y" [] c = "Z" -> "z"
      [] OTHER -> c

\* str.lower()
Lower(s) == [i \in 1..Len(s) |-> LowerChar(s[i])]

\* Python's None, and the absence of a returned value or of an error
None == "<None>"
NoValue == [none |-> TRUE]
NoError == [kind |-> "none"]

\* `not x` for an optional string
Falsy(x) == x = None \/ x = ""

----------------------------------------------------------------------------
(* Status strings the service may report *)

S_running    == <<"r","u","n","n","i","n","g">>
S_Running    == <<"R","u","n","n","i","n","g">>
S_notStarted == <<"n","o","t","S","t","a","r","t","e","d">>
S_notstarted == <<"n","o","t","s","t","a","r","t","e","d">>
S_succeeded  == <<"s","u","c","c","e","e","d","e","d">>
S_Succeeded  == <<"S","u","c","c","e","e","d","e","d">>
S_failed     == <<"f","a","i","l","e","d">>
S_Failed     == <<"F","a","i","l","e","d">>
S_canceled   == <<"c","a","n","c","e","l","e","d">>
S_Canceled   == <<"C","a","n","c","e","l","e","d">>
S_unknown    == <<"u","n","k","n","o","w","n">>
S_NotStarted == <<"N","o","t","S","t","a","r","t","e","d">>
S_SUCCEEDED  == <<"S","U","C","C","E","E","D","E","D">>
S_FAILED     == <<"F","A","I","L","E","D">>

----------------------------------------------------------------------------
(* HTTP headers *)

H_OperationLocation ==
    <<"O","p","e","r","a","t","i","o","n","-","L","o","c","a","t","i","o","n">>
H_operation_location ==
    <<"o","p","e","r","a","t","i","o","n","-","l","o","c","a","t","i","o","n">>
H_ContentType == <<"C","o","n","t","e","n","t","-","T","y","p","e">>
H_RequestId == <<"x","-","r","e","q","u","e","s","t","-","i","d">>
H_SubscriptionKey ==
    <<"O","c","p","-","A","p","i","m","-","S","u","b","s","c","r","i","p","t",
      "i","o","n","-","K","e","y">>

\* A lookup that compares header names exactly, as a plain dict would
HeaderGet_CaseSensitive(hs, name) ==
    IF name \in DOMAIN hs THEN hs[name] ELSE None

\* response.headers.get(name): response.headers of the requests library is a
\* CaseInsensitiveDict, so the name matches whatever its letter case
HeaderGet(hs, name) ==
    LET hits == {k \in DOMAIN hs : Lower(k) = Lower(name)}
    IN  IF hits = {} THEN None ELSE hs[CHOOSE k \in hits : TRUE]

----------------------------------------------------------------------------
(* Inputs *)

\* api_key: a subscription key, or the empty string when none is configured
ApiKeys == {"key-1", ""}
ContentTypes == {"application/pdf"}

Url1 == "https://svc/contentunderstanding/analyzers/a/operations/1"

\* Bodies the service may send on a status check (response.json())
ResultPayload == [contents |-> <<>>]
AnalyzeResultPayload == [documents |-> <<>>]

InProgressBodies ==
    {[status |-> s] : s \in {S_running, S_Running, S_notStarted}}

SucceededBodies ==
    UNION {{[status |-> s],
            [status |-> s, result |-> ResultPayload],
            [status |-> s, analyzeResult |-> AnalyzeResultPayload],
            [status |-> s, result |-> ResultPayload,
             analyzeResult |-> AnalyzeResultPayload]}
           : s \in {S_succeeded, S_Succeeded}}

FailedBodies ==
    UNION {{[status |-> s],
            [status |-> s, error |-> [code |-> "InvalidRequest"]],
            [status |-> s, error |-> [code |-> "InvalidRequest",
                                      message |-> "Document format not supported"]]}
           : s \in {S_failed, S_Failed}}

OtherBodies ==
    {[status |-> S_canceled], [status |-> S_Canceled], [status |-> S_unknown],
     [status |-> S_notstarted], [id |-> "op-1"]}

\* the recognized statuses in other letter cases
CaseVariantBodies ==
    {[status |-> S_NotStarted],
     [status |-> S_SUCCEEDED, result |-> ResultPayload], [status |-> S_FAILED]}

PollBodies ==
    InProgressBodies \cup SucceededBodies \cup FailedBodies \cup OtherBodies
    \cup CaseVariantBodies

PollResponses ==
    [status_code : {200, 204, 500}, text : {"Service Unavailable"}, body : PollBodies]

\* Header sets the service may send with the response to the submit POST
SubmitHeaderSets ==
    { (H_RequestId :> "req-1"),
      (H_RequestId :> "req-1") @@ (H_OperationLocation :> Url1),
      (H_RequestId :> "req-1") @@ (H_operation_location :> Url1),
      (H_OperationLocation :> ""),
      (H_operation_location :> "") }

SubmitResponses ==
    [status_code : {200, 201, 202, 400, 500}, text : {"", "Bad Request"},
     headers : SubmitHeaderSets]

----------------------------------------------------------------------------
(* State *)

VARIABLES
    pc,                  \* position of the invocation
    api_key,             \* arguments of submit_document / poll_for_results
    content_type,
    max_retries,
    retry_interval,
    operation_location,  \* what submit_document returned
    headers,             \* local of poll_for_results: [id, h]
    retries,             \* local of poll_for_results
    nbuilt,              \* header dicts constructed so far
    postLog,             \* requests.post calls: [hid, headers, resp]
    getLog,              \* requests.get calls: [hid, headers, url, resp]
    sleeps,              \* time.sleep calls
    slept,               \* seconds slept in total
    outcome,             \* "Pending", "Succeeded" or the kind of the error raised
    error,               \* the exception raised, NoError if none
    ret,                 \* the value poll_for_results returned, NoValue if none
    env,                 \* os.environ: [endpoint, key, analyzer], None if unset
    blob,                \* the triggering document: [name, uri, length]
    bpc,                 \* position of the trigger function ("idle": none runs)
    results,             \* what process_results returned, NoValue if none
    sink,                \* documents handed to the document store, in order
    raised,              \* the exception the trigger function ended with
    others               \* the locals of a second invocation while it waits

pipelineVars == <<env, blob, bpc, results, sink, raised, others>>

vars == <<pc, api_key, content_type, max_retries, retry_interval,
          operation_location, headers, retries, nbuilt, postLog, getLog,
          sleeps, slept, outcome, error, ret, env, blob, bpc, results, sink,
          raised, others>>

\* one invocation runs on its own
NoOthers == [id |-> 0]

\* no trigger function runs: submit_document and poll_for_results are called
\* directly
NoPipeline ==
    /\ env = [endpoint |-> None, key |-> None, analyzer |-> None]
    /\ blob = [name |-> None, uri |-> None, length |-> 0]
    /\ bpc = "idle"
    /\ results = NoValue
    /\ sink = <<>>
    /\ raised = NoError
    /\ others = NoOthers

Init ==
    /\ pc = "submit"
    /\ api_key \in ApiKeys
    /\ content_type \in ContentTypes
    /\ max_retries \in 0..MaxRetries
    /\ retry_interval \in 1..MaxInterval
    /\ operation_location = None
    /\ headers = [id |-> 0, h |-> <<>>]
    /\ retries = 0
    /\ nbuilt = 0
    /\ postLog = <<>>
    /\ getLog = <<>>
    /\ sleeps = 0
    /\ slept = 0
    /\ outcome = "Pending"
    /\ error = NoError
    /\ ret = NoValue
    /\ NoPipeline

----------------------------------------------------------------------------
(* submit_document *)

\* headers = {"Content-Type": content_type, "Ocp-Apim-Subscription-Key": api_key}
BuildSubmitHeaders(ctype, key) ==
    (H_ContentType :> ctype) @@ (H_SubscriptionKey :> key)

SubmitAccepted_Any2xx(code) == code \in 200..299

\* the negation of `response.status_code != 202`
SubmitAccepted(code) == code = 202

\* raise Exception(f"Failed to submit document: {status_code} - {text}")
SubmitStatusError(resp) ==
    [type |-> "Exception", kind |-> "SubmissionError", cause |-> "status",
     code |-> resp.status_code, text |-> resp.text]

\* raise Exception("No operation location returned from API")
SubmitLocationError ==
    [type |-> "Exception", kind |-> "SubmissionError", cause |-> "no_location"]

SubmitDocument(resp) ==
    /\ pc = "submit"
    /\ nbuilt' = nbuilt + 1
    /\ postLog' = Append(postLog,
                         [hid |-> nbuilt + 1,
                          headers |-> BuildSubmitHeaders(content_type, api_key),
                          resp |-> resp])
    /\ IF ~SubmitAccepted(resp.status_code)
       THEN /\ error' = SubmitStatusError(resp)
            /\ outcome' = "SubmissionError"
            /\ pc' = "done"
            /\ UNCHANGED operation_location
       ELSE LET loc == HeaderGet(resp.headers, H_OperationLocation)
            IN  IF Falsy(loc)
                THEN /\ error' = SubmitLocationError
                     /\ outcome' = "SubmissionError"
                     /\ pc' = "done"
                     /\ UNCHANGED operation_location
                ELSE /\ operation_location' = loc
                     /\ pc' = "poll"
                     /\ UNCHANGED <<error, outcome>>
    /\ UNCHANGED <<api_key, content_type, max_retries, retry_interval, headers,
                   retries, getLog, sleeps, slept, ret>>
    /\ UNCHANGED pipelineVars

----------------------------------------------------------------------------
(* poll_for_results *)

\* headers = {"Ocp-Apim-Subscription-Key": api_key}
BuildPollHeaders(key) == (H_SubscriptionKey :> key)

LoopContinues_OffByOne(r, max) == r <= max

\* while retries < max_retries
LoopContinues(r, max) == r < max

PollOk_AnySuccess(code) == code < 400

\* the negation of `response.status_code != 200`
PollOk(code) == code = 200

StatusOf_NoLower(body) ==
    IF "status" \in DOMAIN body THEN body.status ELSE S_unknown

\* status = result.get("status", "unknown").lower()
StatusOf(body) ==
    Lower(IF "status" \in DOMAIN body THEN body.status ELSE S_unknown)

InProgress_RunningOnly(status) == status = S_running

\* status in ["notstarted", "running"]
InProgress(status) == status \in {S_notstarted, S_running}

ExtractPayload_AnalyzeResultFirst(body) ==
    IF "analyzeResult" \in DOMAIN body THEN body.analyzeResult
    ELSE IF "result" \in DOMAIN body THEN body.result
    ELSE body

\* the three returns of the `succeeded` branch
ExtractPayload(body) ==
    IF "result" \in DOMAIN body THEN body.result
    ELSE IF "analyzeResult" \in DOMAIN body THEN body.analyzeResult
    ELSE body

ErrorMessage_NoDefault(body) ==
    IF "error" \in DOMAIN body /\ "message" \in DOMAIN body.error
    THEN body.error.message
    ELSE ""

\* result.get("error", {}).get("message", "Unknown error")
ErrorMessage(body) ==
    IF "error" \in DOMAIN body /\ "message" \in DOMAIN body.error
    THEN body.error.message
    ELSE "Unknown error"

TimeoutSeconds_Attempts(max, interval) == max

\* max_retries * retry_interval
TimeoutSeconds(max, interval) == max * interval

\* raise Exception(f"Failed to get results: {status_code} - {text}")
PollHttpError(resp) ==
    [type |-> "Exception", kind |-> "PollError",
     code |-> resp.status_code, text |-> resp.text]

\* raise Exception(f"Analysis failed: {error_message}")
AnalysisFailedError(body) ==
    [type |-> "Exception", kind |-> "AnalysisFailedError",
     message |-> ErrorMessage(body)]

\* raise Exception(f"Unknown status: {status}")
UnknownStatusError(status) ==
    [type |-> "Exception", kind |-> "UnknownStatusError", status |-> status]

\* raise Exception(f"Analysis timed out after {max_retries * retry_interval} seconds")
PollTimeoutError(max, interval) ==
    [type |-> "Exception", kind |-> "TimeoutError",
     seconds |-> TimeoutSeconds(max, interval)]

\* a response body that response.json() cannot decode
NotJsonBody == [notjson |-> "<html>Bad Gateway</html>"]

IsJson(body) == "notjson" \notin DOMAIN body

\* result = response.json() raises requests.exceptions.JSONDecodeError, a
\* subclass of json.JSONDecodeError and so of ValueError
JSONDecodeError ==
    [type |-> "ValueError", kind |-> "JSONDecodeError",
     message |-> "Expecting value: line 1 column 1 (char 0)"]

RequestHeaders_Rebuilt == [id |-> headers.id + Len(getLog), h |-> headers.h]

\* requests.get(operation_location, headers=headers): the GET sends the dict
\* that the local `headers` names
RequestHeaders == headers

\* entry of poll_for_results: the header dict is built and retries set to 0
PollEnter ==
    /\ pc = "poll"
    /\ headers' = [id |-> nbuilt + 1, h |-> BuildPollHeaders(api_key)]
    /\ nbuilt' = nbuilt + 1
    /\ retries' = 0
    /\ pc' = "loop"
    /\ UNCHANGED <<api_key, content_type, max_retries, retry_interval,
                   operation_location, postLog, getLog, sleeps, slept, outcome,
                   error, ret>>
    /\ UNCHANGED pipelineVars

\* one iteration of the loop up to its return, raise or time.sleep
PollGet(resp) ==
    /\ pc = "loop"
    /\ LoopContinues(retries, max_retries)
    /\ getLog' = Append(getLog, [hid |-> RequestHeaders.id,
                                 headers |-> RequestHeaders.h,
                                 url |-> operation_location, resp |-> resp])
    /\ IF ~PollOk(resp.status_code)
       THEN /\ error' = PollHttpError(resp)
            /\ outcome' = "PollError"
            /\ pc' = "done"
            /\ UNCHANGED ret
       ELSE IF ~IsJson(resp.body)
       THEN /\ error' = JSONDecodeError
            /\ outcome' = "JSONDecodeError"
            /\ pc' = "done"
            /\ UNCHANGED ret
       ELSE LET status == StatusOf(resp.body)
            IN  IF status = S_succeeded
                THEN /\ ret' = ExtractPayload(resp.body)
                     /\ outcome' = "Succeeded"
                     /\ pc' = "done"
                     /\ UNCHANGED error
                ELSE IF status = S_failed
                THEN /\ error' = AnalysisFailedError(resp.body)
                     /\ outcome' = "AnalysisFailedError"
                     /\ pc' = "done"
                     /\ UNCHANGED ret
                ELSE IF InProgress(status)
                THEN /\ pc' = "sleep"
                     /\ UNCHANGED <<error, outcome, ret>>
                ELSE /\ error' = UnknownStatusError(status)
                     /\ outcome' = "UnknownStatusError"
                     /\ pc' = "done"
                     /\ UNCHANGED ret
    /\ UNCHANGED <<api_key, content_type, max_retries, retry_interval,
                   operation_location, headers, retries, nbuilt, postLog,
                   sleeps, slept>>
    /\ UNCHANGED pipelineVars

\* time.sleep(retry_interval); retries += 1
PollSleep ==
    /\ pc = "sleep"
    /\ sleeps' = sleeps + 1
    /\ slept' = slept + retry_interval
    /\ retries' = retries + 1
    /\ pc' = "loop"
    /\ UNCHANGED <<api_key, content_type, max_retries, retry_interval,
                   operation_location, headers, nbuilt, postLog, getLog,
                   outcome, error, ret>>
    /\ UNCHANGED pipelineVars

\* the loop condition fails: the raise after the loop
PollTimeout ==
    /\ pc = "loop"
    /\ ~LoopContinues(retries, max_retries)
    /\ error' = PollTimeoutError(max_retries, retry_interval)
    /\ outcome' = "TimeoutError"
    /\ pc' = "done"
    /\ UNCHANGED <<api_key, content_type, max_retries, retry_interval,
                   operation_location, headers, retries, nbuilt, postLog,
                   getLog, sleeps, slept, ret>>
    /\ UNCHANGED pipelineVars

----------------------------------------------------------------------------
(* Specifications *)

Next ==
    \/ \E resp \in SubmitResponses : SubmitDocument(resp)
    \/ PollEnter
    \/ \E resp \in PollResponses : PollGet(resp)
    \/ PollSleep
    \/ PollTimeout

Spec == Init /\ [][Next]_vars

\* The invocation runs on one thread that nothing preempts for ever: every
\* step that is enabled is eventually taken.
FairSpec == Spec /\ WF_vars(Next)

----------------------------------------------------------------------------
(* Vocabulary of the properties *)

\* poll_for_results has been entered
PollEntered == headers.id # 0

GetCount == Len(getLog)

\* what the k-th status check received
Resp(k) == getLog[k].resp

HasStatus(r) == "status" \in DOMAIN r.body

\* the k-th status check answered 200 with exactly this status string
Reports(k, s) ==
    /\ Resp(k).status_code = 200
    /\ HasStatus(Resp(k))
    /\ Resp(k).body.status = s

ReportsInProgress(k) == Reports(k, S_notStarted) \/ Reports(k, S_running)

AllInProgress == \A i \in 1..GetCount : ReportsInProgress(i)

PollOutcomes ==
    {"Succeeded", "AnalysisFailedError", "UnknownStatusError", "TimeoutError",
     "PollError"}

\* the k-th status check ended the poll at once: it is the last GET, only the
\* delays between the earlier checks have elapsed, and the invocation is over
EndedAt(k) == GetCount = k /\ sleeps = k - 1 /\ pc = "done"

----------------------------------------------------------------------------
(* Properties of poll_for_results *)

\* C1: when the first k-1 status checks report notStarted or running and the
\* k-th reports succeeded, poll has issued exactly k GETs and slept exactly
\* k-1 times when it returns, and nothing follows the succeeded response;
\* while only notStarted/running have been reported and fewer than
\* max_retries checks were made, poll has not given up.
C1_PollUntilSucceeded ==
    /\ \A k \in 1..GetCount :
          ((\A i \in 1..(k - 1) : ReportsInProgress(i)) /\ Reports(k, S_succeeded))
          => /\ EndedAt(k)
             /\ outcome = "Succeeded"
             /\ error = NoError
             /\ ret # NoValue
    /\ (PollEntered /\ AllInProgress /\ GetCount < max_retries)
          => /\ pc \in {"loop", "sleep"}
             /\ outcome = "Pending"
             /\ sleeps \in {GetCount - 1, GetCount}

C1_Witness ==
    /\ pc = "done"
    /\ outcome = "Succeeded"
    /\ GetCount = 3
    /\ sleeps = 2
    /\ Reports(1, S_notStarted)
    /\ Reports(2, S_running)
    /\ Reports(3, S_succeeded)

\* C2: when every status check reports notStarted or running, poll never
\* returns a value; it ends only by the timeout error, after exactly
\* max_retries checks, and the error carries max_retries * retry_interval.
C2_TimeoutAfterMaxAttempts ==
    (PollEntered /\ AllInProgress)
    => /\ ret = NoValue
       /\ outcome \in {"Pending", "TimeoutError"}
       /\ GetCount <= max_retries
       /\ pc = "done" => /\ outcome = "TimeoutError"
                         /\ error.kind = "TimeoutError"
                         /\ error.seconds = max_retries * retry_interval
                         /\ GetCount = max_retries

C2_Witness ==
    /\ pc = "done"
    /\ outcome = "TimeoutError"
    /\ AllInProgress
    /\ GetCount = 3
    /\ retry_interval = 2
    /\ error.seconds = 6

C4_PayloadPriority ==
    /\ \A k \in 1..GetCount : Reports(k, S_succeeded) => outcome = "Succeeded"
    /\ (outcome = "Succeeded")
          => LET b == Resp(GetCount).body
             IN  /\ ("result" \in DOMAIN b) => (ret = b.result)
                 /\ ("result" \notin DOMAIN b /\ "analyzeResult" \in DOMAIN b)
                       => (ret = b.analyzeResult)
                 /\ ("result" \notin DOMAIN b /\ "analyzeResult" \notin DOMAIN b)
                       => (ret = b)

C4_Witness ==
    /\ outcome = "Succeeded"
    /\ Reports(GetCount, S_succeeded)
    /\ {"result", "analyzeResult"} \subseteq DOMAIN Resp(GetCount).body
    /\ ret = ResultPayload
    /\ ret # AnalyzeResultPayload

\* C5: a status check that reports failed ends the poll at once (it is the
\* last GET and no delay follows it) with the analysis-failed error, which
\* carries the service's error message, or "Unknown error" without one.
C5_FailedStopsWithMessage ==
    \A k \in 1..GetCount :
        Reports(k, S_failed)
        => LET b == Resp(k).body
           IN  /\ EndedAt(k)
               /\ outcome = "AnalysisFailedError"
               /\ error.kind = "AnalysisFailedError"
               /\ ret = NoValue
               /\ IF "error" \in DOMAIN b /\ "message" \in DOMAIN b.error
                  THEN error.message = b.error.message
                  ELSE error.message = "Unknown error"

C5_Witness ==
    /\ GetCount = 2
    /\ Reports(2, S_failed)
    /\ "error" \notin DOMAIN Resp(2).body
    /\ outcome = "AnalysisFailedError"
    /\ error.message = "Unknown error"
    /\ sleeps = 1

\* the status strings poll_for_results knows, as the claims spell them
KnownStatuses == {S_notStarted, S_running, S_succeeded, S_failed}

\* the k-th status check answered 200 with a status string that is none of
\* the known ones in any letter case
ReportsUnrecognized(k) ==
    /\ Resp(k).status_code = 200
    /\ HasStatus(Resp(k))
    /\ \A s \in KnownStatuses : Lower(Resp(k).body.status) # Lower(s)

\* C6 as stated: a status check reporting a status string other than
\* notStarted, running, succeeded or failed fails with the unknown-status
\* error, and the error carries the status string exactly as the service
\* reported it.
C6_UnknownStatusCarriedVerbatim ==
    \A k \in 1..GetCount :
        ReportsUnrecognized(k)
        => /\ outcome = "UnknownStatusError"
           /\ error.status = Resp(k).body.status

\* C6 amended: a status check reporting a status string other than
\* notStarted, running, succeeded or failed ends the poll at once with the
\* unknown-status error, and the error carries the reported status string
\* converted to lower case.
C6_UnknownStatusCarriedLowerCased ==
    \A k \in 1..GetCount :
        ReportsUnrecognized(k)
        => /\ EndedAt(k)
           /\ outcome = "UnknownStatusError"
           /\ error.kind = "UnknownStatusError"
           /\ error.status = Lower(Resp(k).body.status)
           /\ ret = NoValue

C6_Witness ==
    /\ GetCount = 2
    /\ Reports(2, S_Canceled)
    /\ outcome = "UnknownStatusError"
    /\ error.status = S_canceled
    /\ error.status # Resp(2).body.status

\* C7: a status check answered with an HTTP status other than 200 ends the
\* poll at once with the poll error, whatever the body says and however many
\* attempts remain: it is the last GET and no delay follows it.
C7_Non200FailsImmediately ==
    \A k \in 1..GetCount :
        (Resp(k).status_code # 200)
        => /\ EndedAt(k)
           /\ outcome = "PollError"
           /\ error.kind = "PollError"
           /\ error.code = Resp(k).status_code
           /\ error.text = Resp(k).text
           /\ ret = NoValue

C7_Witness ==
    /\ max_retries = 3
    /\ GetCount = 1
    /\ Resp(1).status_code = 204
    /\ HasStatus(Resp(1))
    /\ Resp(1).body.status = S_running
    /\ outcome = "PollError"
    /\ sleeps = 0

\* C8 as stated: every status-check GET sends a header set built for that GET
\* alone, never the header set an earlier GET sent.
C8_FreshHeadersPerGet ==
    \A n, m \in 1..GetCount : (n # m) => (getLog[n].hid # getLog[m].hid)

\* C8 amended: poll builds one header set when it is entered, before the
\* first status check, holding only the subscription key it was given; every
\* status-check GET of that invocation sends that same header set, which is
\* a different set from the one sent with the submit POST.
C8_OneHeaderSetPerPoll ==
    \A n \in 1..GetCount :
        /\ getLog[n].hid = headers.id
        /\ getLog[n].hid # postLog[1].hid
        /\ getLog[n].headers = (H_SubscriptionKey :> api_key)
        /\ nbuilt = 2

C8_Witness ==
    /\ GetCount = 3
    /\ getLog[1].hid = getLog[3].hid
    /\ getLog[2].hid = getLog[3].hid
    /\ DOMAIN getLog[3].headers = {H_SubscriptionKey}

----------------------------------------------------------------------------
(* Properties of submit_document *)

SubmitDone == Len(postLog) = 1

PostResp == postLog[1].resp

\* C9: for every response status other than 202, other 2xx included, submit
\* fails with the submission error carrying the status code and the body
\* text, no operation location is returned and no status check is made; an
\* operation location is returned only on 202.
C9_OnlyAcceptedSucceeds ==
    SubmitDone
    => /\ (PostResp.status_code # 202)
             => /\ pc = "done"
                /\ outcome = "SubmissionError"
                /\ error.kind = "SubmissionError"
                /\ error.cause = "status"
                /\ error.code = PostResp.status_code
                /\ error.text = PostResp.text
                /\ operation_location = None
                /\ ~PollEntered
                /\ GetCount = 0
       /\ (operation_location # None) => (PostResp.status_code = 202)

C9_Witness ==
    /\ SubmitDone
    /\ PostResp.status_code = 200
    /\ H_OperationLocation \in DOMAIN PostResp.headers
    /\ PostResp.headers[H_OperationLocation] = Url1
    /\ outcome = "SubmissionError"
    /\ error.code = 200
    /\ error.text = "Bad Request"

\* the response carries a non-empty operation locator under this spelling
Carries(name) ==
    /\ name \in DOMAIN PostResp.headers
    /\ PostResp.headers[name] # ""

\* C10: on 202, submit returns the operation locator the response carries
\* under `Operation-Location` or under `operation-location`; when the header
\* is absent or empty under both spellings, submit fails with the submission
\* error and returns nothing.
C10_LocatorUnderEitherSpelling ==
    (SubmitDone /\ PostResp.status_code = 202)
    => /\ \A name \in {H_OperationLocation, H_operation_location} :
             Carries(name)
             => /\ operation_location = PostResp.headers[name]
                /\ outcome # "SubmissionError"
                /\ pc # "submit"
       /\ (~Carries(H_OperationLocation) /\ ~Carries(H_operation_location))
             => /\ pc = "done"
                /\ outcome = "SubmissionError"
                /\ error = SubmitLocationError
                /\ operation_location = None
                /\ GetCount = 0

C10_Witness ==
    /\ SubmitDone
    /\ PostResp.status_code = 202
    /\ Carries(H_operation_location)
    /\ H_OperationLocation \notin DOMAIN PostResp.headers
    /\ operation_location = Url1
    /\ pc = "poll"

\* the k-th status check answered 200 with a status spelled as one of these
Spelled(k, variants) ==
    /\ Resp(k).status_code = 200
    /\ HasStatus(Resp(k))
    /\ Resp(k).body.status \in variants

RunningSpellings == {S_running, S_Running}

NotStartedSpellings == {S_notStarted, S_notstarted, S_NotStarted}

SucceededSpellings == {S_succeeded, S_Succeeded, S_SUCCEEDED}

FailedSpellings == {S_failed, S_Failed, S_FAILED}

\* the k-th status check was answered with a status in progress, in any case
WaitedAfter(k) == Spelled(k, RunningSpellings \cup NotStartedSpellings)

\* C34: when poll ends with the timeout error, exactly max_retries status
\* checks and exactly max_retries delays have occurred, every check was
\* answered in progress and nothing was returned: no check follows the last
\* delay.  With max_retries = 0 poll issues no GET and no delay.
C34_TimeoutAfterLastDelay ==
    /\ outcome = "TimeoutError"
          => /\ GetCount = max_retries
             /\ sleeps = max_retries
             /\ retries = max_retries
             /\ slept = max_retries * retry_interval
             /\ \A k \in 1..GetCount : WaitedAfter(k)
             /\ ret = NoValue
             /\ pc = "done"
    /\ (PollEntered /\ max_retries = 0)
          => /\ GetCount = 0
             /\ sleeps = 0
             /\ outcome \in {"Pending", "TimeoutError"}

\* poll timed out after two status checks and two delays
C34_Witness ==
    /\ outcome = "TimeoutError"
    /\ max_retries = 2
    /\ GetCount = 2
    /\ sleeps = 2

\* the status check k did not end the poll: a delay followed it
Continued(k) ==
    IF k < GetCount THEN sleeps >= k
    ELSE /\ outcome \in {"Pending", "TimeoutError"}
         /\ \/ pc = "sleep" /\ sleeps = k - 1
            \/ pc \in {"loop", "done"} /\ sleeps = k

\* C35: poll classifies the reported status whatever its letter case:
\* a spelling of succeeded returns, a spelling of failed raises the analysis
\* error, a spelling of notStarted or running waits, and a response with no
\* status field fails as the unknown status "unknown".
C35_StatusCaseInsensitive ==
    \A k \in 1..GetCount :
       /\ Spelled(k, SucceededSpellings)
             => EndedAt(k) /\ outcome = "Succeeded" /\ ret # NoValue
       /\ Spelled(k, FailedSpellings)
             => EndedAt(k) /\ outcome = "AnalysisFailedError"
       /\ WaitedAfter(k) => Continued(k)
       /\ (Resp(k).status_code = 200 /\ IsJson(Resp(k).body)
             /\ ~HasStatus(Resp(k)))
             => /\ EndedAt(k)
                /\ outcome = "UnknownStatusError"
                /\ error.kind = "UnknownStatusError"
                /\ error.status = S_unknown

\* an upper-case NotStarted was waited after and an upper-case SUCCEEDED
\* returned
C35_Witness ==
    /\ GetCount = 2
    /\ Spelled(1, {S_NotStarted})
    /\ Spelled(2, {S_SUCCEEDED})
    /\ outcome = "Succeeded"
    /\ sleeps = 1

----------------------------------------------------------------------------
(* Authentication of the requests *)

\* C12: when neither a token provider nor a subscription key is supplied,
\* header construction fails with a configuration error and no request is
\* sent: no submit POST, no status-check GET.
C12_NoAuthNoRequest ==
    (bpc = "idle" /\ api_key = "")
    => /\ postLog = <<>>
       /\ GetCount = 0
       /\ (pc = "done") => (error.kind = "ConfigurationError")

----------------------------------------------------------------------------
(* Result processing: extract_field_value, assess_extraction_quality,        *)
(* process_custom_extraction, process_results                               *)
(*                                                                         *)
(* A JSON object is a record.  A JSON value that is not an object, where    *)
(* the code tells the two apart, is wrapped: [scalar |-> v, py |-> type].   *)
(* Strings are taken not to contain the names of the value keys.  A         *)
(* confidence is a whole number of hundredths (93 stands for 0.93).  Sums   *)
(* and counts of confidences are taken exactly; where the code compares a   *)
(* rounded mean with a threshold, MeanAbove gives the rounded outcome.      *)

Scalar(v, py) == [scalar |-> v, py |-> py]

\* not isinstance(x, dict)
IsScalar(x) == "scalar" \in DOMAIN x

\* isinstance(x, dict)
IsDict(x) == ~IsScalar(x)

RECURSIVE ExtractFieldValue(_)

ExtractFieldValue_StringFirst(fd) ==
    IF IsScalar(fd) THEN None
    ELSE IF "valueString" \in DOMAIN fd THEN fd.valueString
    ELSE IF "content" \in DOMAIN fd THEN fd.content
    ELSE IF "valueNumber" \in DOMAIN fd THEN fd.valueNumber
    ELSE IF "valueDate" \in DOMAIN fd THEN fd.valueDate
    ELSE IF "valueArray" \in DOMAIN fd
    THEN [i \in 1..Len(fd.valueArray) |->
            LET item == fd.valueArray[i]
            IN  IF IsDict(item) /\ "valueObject" \in DOMAIN item
                THEN [f \in DOMAIN item.valueObject |->
                         ExtractFieldValue(item.valueObject[f])]
                ELSE ExtractFieldValue(item)]
    ELSE IF "valueObject" \in DOMAIN fd
    THEN [f \in DOMAIN fd.valueObject |-> ExtractFieldValue(fd.valueObject[f])]
    ELSE None

ExtractFieldValue_NoNumber(fd) ==
    IF IsScalar(fd) THEN None
    ELSE IF "content" \in DOMAIN fd THEN fd.content
    ELSE IF "valueString" \in DOMAIN fd THEN fd.valueString
    ELSE IF "valueDate" \in DOMAIN fd THEN fd.valueDate
    ELSE IF "valueArray" \in DOMAIN fd
    THEN [i \in 1..Len(fd.valueArray) |->
            LET item == fd.valueArray[i]
            IN  IF IsDict(item) /\ "valueObject" \in DOMAIN item
                THEN [f \in DOMAIN item.valueObject |->
                         ExtractFieldValue(item.valueObject[f])]
                ELSE ExtractFieldValue(item)]
    ELSE IF "valueObject" \in DOMAIN fd
    THEN [f \in DOMAIN fd.valueObject |-> ExtractFieldValue(fd.valueObject[f])]
    ELSE None

\* extract_field_value on an argument for which it returns
ExtractFieldValue(fd) ==
    IF IsScalar(fd) THEN None
    ELSE IF "content" \in DOMAIN fd THEN fd.content
    ELSE IF "valueString" \in DOMAIN fd THEN fd.valueString
    ELSE IF "valueNumber" \in DOMAIN fd THEN fd.valueNumber
    ELSE IF "valueDate" \in DOMAIN fd THEN fd.valueDate
    ELSE IF "valueArray" \in DOMAIN fd
    THEN [i \in 1..Len(fd.valueArray) |->
            LET item == fd.valueArray[i]
            IN  IF IsDict(item) /\ "valueObject" \in DOMAIN item
                THEN [f \in DOMAIN item.valueObject |->
                         ExtractFieldValue(item.valueObject[f])]
                ELSE ExtractFieldValue(item)]
    ELSE IF "valueObject" \in DOMAIN fd
    THEN [f \in DOMAIN fd.valueObject |-> ExtractFieldValue(fd.valueObject[f])]
    ELSE None

RECURSIVE ExtractRaises(_)
\* extract_field_value raises TypeError: `"content" in x` is a substring test
\* on a string and fails on a number or on None
ExtractRaises(fd) ==
    IF IsScalar(fd) THEN fd.py # "str"
    ELSE IF {"content", "valueString", "valueNumber", "valueDate"}
               \cap DOMAIN fd # {}
    THEN FALSE
    ELSE IF "valueArray" \in DOMAIN fd
    THEN \E i \in 1..Len(fd.valueArray) :
            LET item == fd.valueArray[i]
            IN  IF IsDict(item) /\ "valueObject" \in DOMAIN item
                THEN \E f \in DOMAIN item.valueObject :
                        ExtractRaises(item.valueObject[f])
                ELSE ExtractRaises(item)
    ELSE IF "valueObject" \in DOMAIN fd
    THEN \E f \in DOMAIN fd.valueObject : ExtractRaises(fd.valueObject[f])
    ELSE FALSE

RECURSIVE SumOver(_, _)
SumOver(f, keys) ==
    IF keys = {} THEN 0
    ELSE LET k == CHOOSE x \in keys : TRUE
         IN  f[k] + SumOver(f, keys \ {k})

\* sum(confidence_values), in hundredths
ConfidenceSum(conf) == SumOver(conf, DOMAIN conf)

\* len([c for c in confidence_values if c > 0.8])
HighCount(conf) == Cardinality({k \in DOMAIN conf : conf[k] > 80})

MediumCount_Exclusive(conf) ==
    Cardinality({k \in DOMAIN conf : 50 < conf[k] /\ conf[k] < 80})

\* len([c for c in confidence_values if 0.5 <= c <= 0.8])
MediumCount(conf) ==
    Cardinality({k \in DOMAIN conf : 50 <= conf[k] /\ conf[k] <= 80})

\* len([c for c in confidence_values if c < 0.5])
LowCount(conf) == Cardinality({k \in DOMAIN conf : conf[k] < 50})

RECURSIVE ValuesOf(_, _)
ValuesOf(f, keys) ==
    IF keys = {} THEN <<>>
    ELSE LET k == CHOOSE x \in keys : TRUE
         IN  <<f[k]>> \o ValuesOf(f, keys \ {k})

\* list(processed["confidence_scores"].values())
ConfidenceValues(conf) == ValuesOf(conf, DOMAIN conf)

RECURSIVE Sum(_)
\* sum(confidence_values), in hundredths
Sum(cv) == IF cv = <<>> THEN 0 ELSE Head(cv) + Sum(Tail(cv))

\* The sum and the quotient of assess_extraction_quality are IEEE-754 doubles,
\* rounded to nearest.  The rounding error is far below the gap between two
\* distinct means of hundredths, so it can decide `avg > threshold` only when
\* the mean of the decimal values equals the threshold.  These are the
\* sequences over Confidences, of up to four values, whose rounded mean then
\* lies above the threshold (0.1 + 1.0 + 1.0 gives 2.1 and 2.1 / 3 gives
\* 0.7000000000000001); for every other sequence of that kind, and for every
\* sequence of one or two hundredths, the rounded mean does not exceed it.
RoundedAbove ==
    { <<10, 100, 100>>, <<100, 10, 100>>, <<100, 100, 10>>,
      <<50, 80, 80>>, <<80, 50, 80>>, <<80, 80, 50>>,
      <<23, 93, 34>>, <<93, 23, 34>>,
      <<50, 93, 34, 23>>, <<93, 50, 34, 23>>,
      <<80, 81, 100, 99>>, <<80, 100, 81, 99>>, <<81, 80, 100, 99>>,
      <<81, 100, 80, 99>>, <<100, 80, 81, 99>>, <<100, 81, 80, 99>>,
      <<81, 81, 99, 99>>, <<81, 99, 81, 99>>, <<99, 81, 81, 99>>,
      <<81, 93, 93, 93>>, <<93, 81, 93, 93>> }

\* sum(confidence_values) / len(confidence_values) > percent / 100
MeanAbove(cv, percent) ==
    \/ Sum(cv) > percent * Len(cv)
    \/ Sum(cv) = percent * Len(cv) /\ cv \in RoundedAbove

IsHigh(c) == c > 80

\* len([c for c in confidence_values if c > 0.8]) / len(confidence_values)
\* > tenths / 10: the quotient of two small integers is rounded correctly, to
\* the very double the literal denotes when they are equal
HighRatioAbove(cv, tenths) == 10 * Len(SelectSeq(cv, IsHigh)) > tenths * Len(cv)

\* assess_extraction_quality(confidence_values)
AssessExtractionQuality(confidence_values) ==
    IF confidence_values = <<>> THEN "no_data"
    ELSE IF /\ MeanAbove(confidence_values, 90)
            /\ HighRatioAbove(confidence_values, 8)
    THEN "excellent"
    ELSE IF /\ MeanAbove(confidence_values, 70)
            /\ HighRatioAbove(confidence_values, 6)
    THEN "good"
    ELSE IF MeanAbove(confidence_values, 50) THEN "fair"
    ELSE "poor"

\* the field entries process_custom_extraction walks, and how it reads them:
\* "resolve" through extract_field_value, "value" through the `value` key
NoFields == [how |-> "none", entries |-> <<>>]

SelectFields(ar) ==
    IF "contents" \in DOMAIN ar
    THEN IF Len(ar.contents) > 0
         THEN LET content == ar.contents[1]
              IN  IF "fields" \in DOMAIN content
                  THEN [how |-> "resolve", entries |-> content.fields]
                  ELSE IF "extractedFields" \in DOMAIN content
                  THEN [how |-> "value", entries |-> content.extractedFields]
                  ELSE NoFields
         ELSE NoFields
    ELSE IF "documents" \in DOMAIN ar
    THEN IF Len(ar.documents) > 0
         THEN LET document == ar.documents[1]
              IN  [how |-> "resolve",
                   entries |-> IF "fields" \in DOMAIN document
                               THEN document.fields ELSE <<>>]
         ELSE NoFields
    ELSE NoFields

KeptNames_All(sel) == DOMAIN sel.entries

\* the entries kept: `if isinstance(field_info, dict)`
KeptNames(sel) == {k \in DOMAIN sel.entries : IsDict(sel.entries[k])}

\* processed["extracted_fields"]
ExtractedFields(sel) ==
    [k \in KeptNames(sel) |->
        IF sel.how = "resolve" THEN ExtractFieldValue(sel.entries[k])
        ELSE IF "value" \in DOMAIN sel.entries[k] THEN sel.entries[k].value
        ELSE ""]

\* field_info.get("confidence", 0)
ConfidenceOf(entry) ==
    IF IsDict(entry) /\ "confidence" \in DOMAIN entry THEN entry.confidence ELSE 0

ConfidenceScores_OnlyReported(sel) ==
    [k \in {n \in KeptNames(sel) : "confidence" \in DOMAIN sel.entries[n]} |->
        sel.entries[k].confidence]

\* processed["confidence_scores"]
ConfidenceScores(sel) ==
    [k \in KeptNames(sel) |-> ConfidenceOf(sel.entries[k])]

\* process_custom_extraction raises
CustomExtractionRaises(ar) ==
    LET sel == SelectFields(ar)
    IN  /\ sel.how = "resolve"
        /\ \E k \in KeptNames(sel) : ExtractRaises(sel.entries[k])

Summary_NoDataAsPoor(fields, conf) ==
    [total_fields_extracted |-> Cardinality(DOMAIN fields),
     fields_with_high_confidence |-> HighCount(conf),
     fields_with_medium_confidence |-> MediumCount(conf),
     fields_with_low_confidence |-> LowCount(conf),
     average_confidence |->
         [sum |-> ConfidenceSum(conf),
          count |-> IF DOMAIN conf = {} THEN 1 ELSE Cardinality(DOMAIN conf)],
     extraction_quality |->
         IF DOMAIN conf = {} THEN "poor"
         ELSE AssessExtractionQuality(ConfidenceValues(conf))]

\* processed["summary"], for confidence_values = cv: the values of conf in the
\* order in which the fields were inserted
SummaryOfValues(fields, conf, cv) ==
    IF DOMAIN conf # {}
    THEN [total_fields_extracted |-> Cardinality(DOMAIN fields),
          fields_with_high_confidence |-> HighCount(conf),
          fields_with_medium_confidence |-> MediumCount(conf),
          fields_with_low_confidence |-> LowCount(conf),
          average_confidence |->
              [sum |-> ConfidenceSum(conf), count |-> Cardinality(DOMAIN conf)],
          extraction_quality |-> AssessExtractionQuality(cv)]
    ELSE [total_fields_extracted |-> 0,
          fields_with_high_confidence |-> 0,
          fields_with_medium_confidence |-> 0,
          fields_with_low_confidence |-> 0,
          average_confidence |-> [sum |-> 0, count |-> 1],
          extraction_quality |-> "no_data"]

\* processed["summary"] of a result of at most two fields, whose order does
\* not change the rounded sum
Summary(fields, conf) == SummaryOfValues(fields, conf, ConfidenceValues(conf))

ProcessCustomExtraction(ar) ==
    LET sel == SelectFields(ar)
        fields == ExtractedFields(sel)
        conf == ConfidenceScores(sel)
    IN  [extraction_type |-> "custom_schema",
         extracted_fields |-> fields,
         confidence_scores |-> conf,
         summary |-> Summary(fields, conf)]

ApiVersion == "2025-05-01-preview"

\* process_results: the metadata, updated with the custom extraction
ProcessResults(ar, filename, analyzer_name, now) ==
    [metadata |-> [filename |-> filename,
                   analyzer_name |-> analyzer_name,
                   analyzer_type |-> "extraction",
                   analysis_timestamp |-> now,
                   api_version |-> ApiVersion]]
    @@ ProcessCustomExtraction(ar)

\* raise TypeError out of extract_field_value
ExtractionTypeError == [type |-> "TypeError", kind |-> "TypeError"]

----------------------------------------------------------------------------
(* Raw results handed to the result processor *)

FieldNames == {"invoice_number", "total"}

DictEntries ==
    { [valueString |-> "INV-1", confidence |-> 93],
      [valueNumber |-> "42.5", confidence |-> 40],
      [content |-> "Acme", valueString |-> "ACME", confidence |-> 85],
      [valueDate |-> "2024-01-31"],
      [valueArray |-> << [valueObject |-> [qty |-> [valueNumber |-> "2"]]],
                         [valueString |-> "x"] >>,
       confidence |-> 80],
      [valueObject |-> [city |-> [valueString |-> "Oslo"]], confidence |-> 50],
      [type |-> "string", confidence |-> 0],
      [value |-> "v", confidence |-> 99],
      [valueArray |-> << Scalar("s", "str") >>],
      [valueArray |-> << Scalar("7", "num") >>, confidence |-> 60],
      [value |-> [valueString |-> "nested"]] }

ScalarEntries == { Scalar("text", "str"), Scalar("7", "num") }

FieldEntries == DictEntries \cup ScalarEntries

\* the mappings name -> entry over every subset of the names
FieldMaps == UNION { [names -> FieldEntries] : names \in SUBSET FieldNames }

\* the fields of a second element of `contents`, and the `extractedFields` of
\* an element that also has `fields`
LaterFields == [later |-> [valueString |-> "L", confidence |-> 99]]

AlternativeFields == [alt |-> [value |-> "A", confidence |-> 10]]

RawResults ==
    { [contents |-> << [fields |-> fm] >>] : fm \in FieldMaps }
    \cup { [contents |-> << [extractedFields |-> fm] >>] : fm \in FieldMaps }
    \cup { [documents |-> << [fields |-> fm] >>] : fm \in FieldMaps }
    \cup { [contents |-> << >>,
            documents |-> << [fields |-> fm] >>] : fm \in FieldMaps }
    \cup { [contents |-> << [fields |-> fm], [fields |-> LaterFields] >>] :
              fm \in FieldMaps }
    \cup { [contents |-> << [fields |-> fm,
                             extractedFields |-> AlternativeFields] >>] :
              fm \in FieldMaps }
    \cup { [contents |-> << [extractedFields |-> fm] >>,
            documents |-> << [fields |-> LaterFields] >>] : fm \in FieldMaps }
    \cup { [contents |-> << [kind |-> "document"] >>],
           [contents |-> << [kind |-> "document"] >>,
            documents |-> << [fields |-> LaterFields] >>],
           [contents |-> << >>],
           [documents |-> << >>],
           [contents |-> << >>, documents |-> << >>],
           [documents |-> << [docType |-> "invoice"] >>],
           [status |-> "Succeeded"] }

(* The result processor applied to each raw result *)

CanonInit ==
    /\ pc = "done"
    /\ api_key = "key-1"
    /\ content_type \in ContentTypes
    /\ max_retries = 0
    /\ retry_interval = 1
    /\ operation_location = None
    /\ headers = [id |-> 0, h |-> <<>>]
    /\ retries = 0
    /\ nbuilt = 0
    /\ postLog = <<>>
    /\ getLog = <<>>
    /\ sleeps = 0
    /\ slept = 0
    /\ outcome = "Succeeded"
    /\ error = NoError
    /\ ret \in RawResults
    /\ env = [endpoint |-> None, key |-> None, analyzer |-> None]
    /\ blob = [name |-> None, uri |-> None, length |-> 0]
    /\ bpc = "canon"
    /\ results = NoValue
    /\ sink = <<>>
    /\ raised = NoError
    /\ others = NoOthers

\* process_custom_extraction(ret)
CanonProcess ==
    /\ bpc = "canon"
    /\ bpc' = "canonDone"
    /\ IF CustomExtractionRaises(ret)
       THEN /\ error' = ExtractionTypeError
            /\ results' = results
       ELSE /\ results' = ProcessCustomExtraction(ret)
            /\ error' = error
    /\ UNCHANGED <<pc, api_key, content_type, max_retries, retry_interval,
                   operation_location, headers, retries, nbuilt, postLog,
                   getLog, sleeps, slept, outcome, ret, env, blob, sink, raised>>
    /\ UNCHANGED others

CanonNext == CanonProcess

CanonSpec == CanonInit /\ [][CanonNext]_vars

Canonicalized == bpc = "canonDone" /\ error = NoError

\* C20: after canonicalization of any raw result (any of the three shapes, any
\* mix of mapping and non-mapping field entries) the key set of the extracted
\* fields equals the key set of the confidence scores, and the summary's total
\* field count equals the size of both.
C20_KeySetsAgree ==
    Canonicalized
    => /\ DOMAIN results.extracted_fields = DOMAIN results.confidence_scores
       /\ results.summary.total_fields_extracted
              = Cardinality(DOMAIN results.extracted_fields)
       /\ results.summary.total_fields_extracted
              = Cardinality(DOMAIN results.confidence_scores)

\* a mapping entry without a confidence next to a non-mapping entry
C20_Witness ==
    /\ Canonicalized
    /\ "contents" \in DOMAIN ret
    /\ Len(ret.contents) > 0
    /\ "fields" \in DOMAIN ret.contents[1]
    /\ DOMAIN ret.contents[1].fields = FieldNames
    /\ ret.contents[1].fields["invoice_number"] = [valueDate |-> "2024-01-31"]
    /\ IsScalar(ret.contents[1].fields["total"])
    /\ DOMAIN results.extracted_fields = {"invoice_number"}
    /\ results.summary.total_fields_extracted = 1

\* `contents` is present and non-empty
ContentsGiven == "contents" \in DOMAIN ret /\ Len(ret.contents) > 0

\* the entries of the first element of `contents` that the claim says are
\* read: its `fields` if it has them, else its `extractedFields`
FirstContentEntries ==
    LET first == ret.contents[1]
    IN  IF "fields" \in DOMAIN first THEN first.fields
        ELSE IF "extractedFields" \in DOMAIN first THEN first.extractedFields
        ELSE <<>>

\* C21: when `contents` is present and non-empty only its first element is
\* used.  The output holds exactly the entries of that element's `fields` that
\* are mappings, each resolved by the recursive resolver and with its
\* confidence (0 if absent), and `extractedFields` is ignored; only an element
\* without `fields` has the mapping entries of its `extractedFields` returned,
\* each with its `value` as it stands and its confidence (0 if absent).
C21_FirstContentOnly ==
    (Canonicalized /\ ContentsGiven)
    => LET first == ret.contents[1]
           entries == FirstContentEntries
           mappings == {k \in DOMAIN entries : "scalar" \notin DOMAIN entries[k]}
       IN  /\ DOMAIN results.extracted_fields = mappings
           /\ DOMAIN results.confidence_scores = mappings
           /\ \A k \in mappings :
                 /\ results.confidence_scores[k]
                        = IF "confidence" \in DOMAIN entries[k]
                          THEN entries[k].confidence ELSE 0
                 /\ ("fields" \in DOMAIN first)
                        => results.extracted_fields[k]
                              = ExtractFieldValue(entries[k])
                 /\ ("fields" \notin DOMAIN first /\ "value" \in DOMAIN entries[k])
                        => results.extracted_fields[k] = entries[k].value

\* an element with both `fields` and `extractedFields`, whose `fields` hold a
\* mapping without confidence and an entry that is not a mapping
C21_Witness ==
    /\ Canonicalized
    /\ ContentsGiven
    /\ Len(ret.contents) = 1
    /\ {"fields", "extractedFields"} \subseteq DOMAIN ret.contents[1]
    /\ DOMAIN ret.contents[1].fields = FieldNames
    /\ ret.contents[1].fields["invoice_number"] = [valueDate |-> "2024-01-31"]
    /\ IsScalar(ret.contents[1].fields["total"])
    /\ results.extracted_fields = [invoice_number |-> "2024-01-31"]
    /\ results.confidence_scores = [invoice_number |-> 0]

\* `documents` is present and non-empty
DocumentsGiven == "documents" \in DOMAIN ret /\ Len(ret.documents) > 0

\* the `fields` of the first element of `documents`
FirstDocumentEntries ==
    IF "fields" \in DOMAIN ret.documents[1] THEN ret.documents[1].fields
    ELSE <<>>

\* C22: whenever `contents` is absent or an empty list and `documents` is
\* present and non-empty, the output holds the mapping entries of the `fields`
\* of the first element of `documents`, each resolved by the recursive resolver
\* and with its confidence.
C22_DocumentsWhenNoContents ==
    (Canonicalized /\ ~ContentsGiven /\ DocumentsGiven)
    => LET entries == FirstDocumentEntries
           mappings == {k \in DOMAIN entries : "scalar" \notin DOMAIN entries[k]}
       IN  /\ DOMAIN results.extracted_fields = mappings
           /\ DOMAIN results.confidence_scores = mappings
           /\ \A k \in mappings :
                 /\ results.extracted_fields[k] = ExtractFieldValue(entries[k])
                 /\ results.confidence_scores[k]
                        = IF "confidence" \in DOMAIN entries[k]
                          THEN entries[k].confidence ELSE 0

\* a raw result of no recognized shape: neither `contents` nor `documents` is
\* present and non-empty
NoRecognizedShape == ~ContentsGiven /\ ~DocumentsGiven

\* C23: for a raw result of no recognized shape the canonicalizer does not
\* fail: it returns an empty fields mapping and an empty confidences mapping,
\* and a summary with 0 fields, 0 in each of the three bands, average
\* confidence 0 and the quality label no_data.
C23_UnrecognizedShapeIsEmpty ==
    (bpc = "canonDone" /\ NoRecognizedShape)
    => /\ error = NoError
       /\ results # NoValue
       /\ DOMAIN results.extracted_fields = {}
       /\ DOMAIN results.confidence_scores = {}
       /\ results.summary.total_fields_extracted = 0
       /\ results.summary.fields_with_high_confidence = 0
       /\ results.summary.fields_with_medium_confidence = 0
       /\ results.summary.fields_with_low_confidence = 0
       /\ results.summary.average_confidence.sum = 0
       /\ results.summary.extraction_quality = "no_data"

\* both keys present and both lists empty
C23_Witness ==
    /\ bpc = "canonDone"
    /\ ret = [contents |-> << >>, documents |-> << >>]
    /\ error = NoError
    /\ results.summary.extraction_quality = "no_data"
    /\ results.summary.total_fields_extracted = 0

\* C30: the three bands of the summary partition the fields: every
\* confidence is counted in exactly one of high (above 0.8), medium (0.5 to
\* 0.8, both included) and low (below 0.5), so the three counts add up to the
\* total number of fields; a confidence of exactly 0.8, or of exactly 0.5, is
\* counted as medium only.
C30_BandsPartition ==
    Canonicalized
    => LET conf == results.confidence_scores
           summary == results.summary
           names == DOMAIN conf
       IN  /\ summary.fields_with_high_confidence
                + summary.fields_with_medium_confidence
                + summary.fields_with_low_confidence
                = summary.total_fields_extracted
           /\ summary.fields_with_high_confidence
                = Cardinality({k \in names : conf[k] > 80})
           /\ summary.fields_with_medium_confidence
                = Cardinality({k \in names : conf[k] >= 50 /\ conf[k] <= 80})
           /\ summary.fields_with_low_confidence
                = Cardinality({k \in names : conf[k] < 50})

\* one field of confidence exactly 0.8 and one of exactly 0.5: both medium
C30_Witness ==
    /\ Canonicalized
    /\ results.confidence_scores = [invoice_number |-> 80, total |-> 50]
    /\ results.summary.total_fields_extracted = 2
    /\ results.summary.fields_with_medium_confidence = 2
    /\ results.summary.fields_with_high_confidence = 0
    /\ results.summary.fields_with_low_confidence = 0

----------------------------------------------------------------------------
(* The summary of one mapping of confidences whose fields were inserted in   *)
(* one order and in another                                                 *)

SummaryNames == {"a", "b", "c"}

SummaryConfidences == {23, 34, 93}

\* the orders in which a response can list the fields
Orders(names) ==
    { o \in [1..Cardinality(names) -> names] :
        \A i, j \in DOMAIN o : i # j => o[i] # o[j] }

\* list(conf.values()) of a dict whose keys were inserted in this order
ValuesInOrder(conf, order) == [i \in DOMAIN order |-> conf[order[i]]]

SummaryInit ==
    /\ pc = "done"
    /\ api_key = "key-1"
    /\ content_type \in ContentTypes
    /\ max_retries = 0
    /\ retry_interval = 1
    /\ operation_location = None
    /\ headers = [id |-> 0, h |-> <<>>]
    /\ retries = 0
    /\ nbuilt = 0
    /\ postLog = <<>>
    /\ getLog = <<>>
    /\ sleeps = 0
    /\ slept = 0
    /\ outcome = "Succeeded"
    /\ error = NoError
    /\ ret \in [conf : [SummaryNames -> SummaryConfidences],
                 first : Orders(SummaryNames),
                 second : Orders(SummaryNames)]
    /\ env = [endpoint |-> None, key |-> None, analyzer |-> None]
    /\ blob = [name |-> None, uri |-> None, length |-> 0]
    /\ bpc = "summary"
    /\ results = NoValue
    /\ sink = <<>>
    /\ raised = NoError
    /\ others = NoOthers

\* the summaries of two results with the confidences ret.conf
Summarize ==
    /\ bpc = "summary"
    /\ bpc' = "summarized"
    /\ results' =
          [first |-> SummaryOfValues(ret.conf, ret.conf,
                                     ValuesInOrder(ret.conf, ret.first)),
           second |-> SummaryOfValues(ret.conf, ret.conf,
                                      ValuesInOrder(ret.conf, ret.second))]
    /\ UNCHANGED <<pc, api_key, content_type, max_retries, retry_interval,
                   operation_location, headers, retries, nbuilt, postLog,
                   getLog, sleeps, slept, outcome, error, ret, env, blob, sink,
                   raised, others>>

SummarySpec == SummaryInit /\ [][Summarize]_vars

\* C31: the summary of a record is a function of its confidence scores
\* alone: the band counts, the average and the quality label are computed
\* from those values, so two results with equal confidence scores get equal
\* summaries.
C31_SummaryFromConfidencesAlone ==
    bpc = "summarized"
    => /\ results.first.fields_with_high_confidence
            = Cardinality({k \in SummaryNames : ret.conf[k] > 80})
       /\ results.first.average_confidence.sum
            = ret.conf["a"] + ret.conf["b"] + ret.conf["c"]
       /\ results.first = results.second

----------------------------------------------------------------------------
(* The resolver alone: extract_field_value applied to one field-data value *)

\* one value for each of the keys the resolver looks for
SampleValue ==
    [content |-> "c",
     valueString |-> "s",
     valueNumber |-> "1",
     valueDate |-> "2024-01-31",
     valueArray |-> << [valueString |-> "x"] >>,
     valueObject |-> [a |-> [valueString |-> "y"]]]

\* field data carrying every subset of these keys next to its `type`
KeyedFieldData ==
    { [k \in ks \cup {"type"} |->
          IF k = "type" THEN "string" ELSE SampleValue[k]] :
      ks \in SUBSET DOMAIN SampleValue }

\* nested objects and arrays, to a depth of four; array elements that are
\* objects, fields of a scalar type, arrays, and values that are not mappings
NestedFieldData ==
    { [valueObject |-> [street |-> [valueString |-> "123 Main St"],
                        zipCode |-> [valueString |-> "12345"]]],
      [valueArray |->
          << [valueObject |-> [name |-> [valueString |-> "Item1"],
                               qty |-> [valueNumber |-> "5"]]],
             [valueObject |-> [name |-> [valueString |-> "Item2"],
                               qty |-> [valueNumber |-> "3"]]] >>],
      [valueArray |-> << [valueString |-> "a"], [valueNumber |-> "2"] >>],
      [valueArray |-> << Scalar("a", "str") >>],
      [valueArray |-> << Scalar("5", "num"), [valueString |-> "b"] >>],
      [valueObject |->
          [items |-> [valueArray |->
              << [valueObject |->
                     [inner |-> [valueArray |->
                                    << [valueString |-> "deep"] >>]]] >>]]],
      [valueArray |->
          << [content |-> "c", valueObject |-> [k |-> [valueString |-> "v"]]] >>],
      [valueArray |-> << >>],
      [valueArray |-> << [valueArray |-> << [valueString |-> "n"] >>] >>],
      [valueObject |-> [sub |-> [unknown |-> "u"]]],
      [content |-> "", valueString |-> "s"],
      [valueString |-> "", valueNumber |-> "1"],
      [confidence |-> 93] }

FieldData == KeyedFieldData \cup NestedFieldData

ResolverInit ==
    /\ pc = "done"
    /\ api_key = "key-1"
    /\ content_type \in ContentTypes
    /\ max_retries = 0
    /\ retry_interval = 1
    /\ operation_location = None
    /\ headers = [id |-> 0, h |-> <<>>]
    /\ retries = 0
    /\ nbuilt = 0
    /\ postLog = <<>>
    /\ getLog = <<>>
    /\ sleeps = 0
    /\ slept = 0
    /\ outcome = "Succeeded"
    /\ error = NoError
    /\ ret \in FieldData
    /\ env = [endpoint |-> None, key |-> None, analyzer |-> None]
    /\ blob = [name |-> None, uri |-> None, length |-> 0]
    /\ bpc = "resolver"
    /\ results = NoValue
    /\ sink = <<>>
    /\ raised = NoError
    /\ others = NoOthers

\* extract_field_value(ret): the value returned, or the TypeError raised
Resolve ==
    /\ bpc = "resolver"
    /\ bpc' = "resolved"
    /\ IF ExtractRaises(ret)
       THEN /\ error' = ExtractionTypeError
            /\ results' = results
       ELSE /\ results' = [value |-> ExtractFieldValue(ret)]
            /\ error' = error
    /\ UNCHANGED <<pc, api_key, content_type, max_retries, retry_interval,
                   operation_location, headers, retries, nbuilt, postLog,
                   getLog, sleeps, slept, outcome, ret, env, blob, sink, raised>>
    /\ UNCHANGED others

ResolverSpec == ResolverInit /\ [][Resolve]_vars

Returned == bpc = "resolved" /\ error = NoError

\* the keys of the claim, in the order of the claim
ValueKeys ==
    << "content", "valueString", "valueNumber", "valueDate", "valueArray",
       "valueObject" >>

\* the first of them that a mapping carries, 0 if it carries none
FirstKeyOf(x) ==
    LET present == {i \in 1..Len(ValueKeys) : ValueKeys[i] \in DOMAIN x}
    IN  IF present = {} THEN 0
        ELSE CHOOSE i \in present : \A j \in present : i <= j

FirstPresent == FirstKeyOf(ret)

\* C24: for a field-data mapping the resolver returns the value of the first
\* key present in the order content, valueString, valueNumber, valueDate,
\* valueArray, valueObject (the scalar as it stands, the array as a sequence of
\* that length, the object as a mapping with its keys), and None when none of
\* the six is present.
C24_FirstKeyInFixedOrder ==
    Returned
    => LET first == FirstPresent
       IN  IF first = 0 THEN results.value = None
           ELSE IF first <= 4 THEN results.value = ret[ValueKeys[first]]
           ELSE IF first = 5
           THEN DOMAIN results.value = 1..Len(ret.valueArray)
           ELSE DOMAIN results.value = DOMAIN ret.valueObject

\* all six keys present: the value of `content` is returned
C24_Witness ==
    /\ Returned
    /\ DOMAIN SampleValue \subseteq DOMAIN ret
    /\ results.value = "c"

RECURSIVE ClaimedValue(_)
\* the value the claims describe: an object becomes the mapping of its
\* resolved sub-fields, an array the sequence of its resolved elements, an
\* array element with `valueObject` the mapping of its resolved sub-fields,
\* and a scalar element that scalar
ClaimedValue(x) ==
    IF "scalar" \in DOMAIN x THEN x.scalar
    ELSE LET first == FirstKeyOf(x)
         IN  IF first = 0 THEN None
             ELSE IF first <= 4 THEN x[ValueKeys[first]]
             ELSE IF first = 5
             THEN [i \in 1..Len(x.valueArray) |->
                     LET item == x.valueArray[i]
                     IN  IF "valueObject" \in DOMAIN item
                         THEN [f \in DOMAIN item.valueObject |->
                                  ClaimedValue(item.valueObject[f])]
                         ELSE ClaimedValue(item)]
             ELSE [f \in DOMAIN x.valueObject |->
                      ClaimedValue(x.valueObject[f])]

\* C25: the resolver maps a valueObject to a mapping with the same keys, each
\* sub-field resolved recursively, and a valueArray to a sequence of the same
\* length and order, in which an element that is a mapping with valueObject
\* has become the mapping of its resolved sub-fields and a scalar element has
\* become that scalar, at every depth of nesting.
C25_ObjectsAndArraysFlattened ==
    (bpc = "resolved" /\ FirstPresent >= 5)
    => /\ error = NoError
       /\ results.value = ClaimedValue(ret)

\* C26: on every finite field-data structure, nested to any depth, the
\* resolver terminates and returns a value (built from scalar leaves,
\* sequences and mappings): no run of it ends without a returned value.
C26_ResolverReturns ==
    bpc = "resolved"
    => /\ error = NoError
       /\ "value" \in DOMAIN results

----------------------------------------------------------------------------
(* The result processor applied to its own output, wrapped as a raw result *)

\* field entries whose value is a string or a number (a number is written as
\* its literal text)
LeafEntries ==
    { [valueString |-> "INV-1", confidence |-> 93],
      [valueNumber |-> "42.5", confidence |-> 40],
      [content |-> "Acme", valueString |-> "ACME", confidence |-> 85],
      [valueDate |-> "2024-01-31"],
      [valueString |-> ""],
      [value |-> "v", confidence |-> 99] }

LeafMaps == UNION { [names -> LeafEntries] : names \in SUBSET FieldNames }

LeafRawResults ==
    { [contents |-> << [fields |-> fm] >>] : fm \in LeafMaps }
    \cup { [contents |-> << [extractedFields |-> fm] >>] : fm \in LeafMaps }
    \cup { [documents |-> << [fields |-> fm] >>] : fm \in LeafMaps }

\* a canonical pair as a raw result of the `contents[0].fields` shape, each
\* entry carrying its value under the key kinds names, and its confidence
Wrap(fields, conf, kinds) ==
    [contents |->
        << [fields |->
               [k \in DOMAIN fields |->
                   IF kinds[k] = "valueString"
                   THEN [valueString |-> fields[k], confidence |-> conf[k]]
                   ELSE [valueNumber |-> fields[k], confidence |-> conf[k]]]] >>]

IdemInit ==
    /\ pc = "done"
    /\ api_key = "key-1"
    /\ content_type \in ContentTypes
    /\ max_retries = 0
    /\ retry_interval = 1
    /\ operation_location = None
    /\ headers = [id |-> 0, h |-> <<>>]
    /\ retries = 0
    /\ nbuilt = 0
    /\ postLog = <<>>
    /\ getLog = <<>>
    /\ sleeps = 0
    /\ slept = 0
    /\ outcome = "Succeeded"
    /\ error = NoError
    /\ ret \in LeafRawResults
    /\ env = [endpoint |-> None, key |-> None, analyzer |-> None]
    /\ blob = [name |-> None, uri |-> None, length |-> 0]
    /\ bpc = "raw"
    /\ results = NoValue
    /\ sink = <<>>
    /\ raised = NoError
    /\ others = NoOthers

\* process_custom_extraction(ret): the canonical pair, kept in results
IdemCanonicalize ==
    /\ bpc = "raw"
    /\ ~CustomExtractionRaises(ret)
    /\ bpc' = "canonical"
    /\ results' = ProcessCustomExtraction(ret)
    /\ UNCHANGED <<pc, api_key, content_type, max_retries, retry_interval,
                   operation_location, headers, retries, nbuilt, postLog,
                   getLog, sleeps, slept, outcome, error, ret, env, blob, sink,
                   raised, others>>

\* the pair wrapped back into a raw result; every value of it is a string or
\* a number
IdemWrap ==
    /\ bpc = "canonical"
    /\ \A k \in DOMAIN results.extracted_fields :
          results.extracted_fields[k] # None
    /\ bpc' = "wrapped"
    /\ \E kinds \in [DOMAIN results.extracted_fields
                       -> {"valueString", "valueNumber"}] :
          ret' = Wrap(results.extracted_fields, results.confidence_scores, kinds)
    /\ UNCHANGED <<pc, api_key, content_type, max_retries, retry_interval,
                   operation_location, headers, retries, nbuilt, postLog,
                   getLog, sleeps, slept, outcome, error, results, env, blob,
                   sink, raised, others>>

\* process_custom_extraction(ret) again: the second pair, kept in sink
IdemCanonicalizeAgain ==
    /\ bpc = "wrapped"
    /\ ~CustomExtractionRaises(ret)
    /\ bpc' = "recanonical"
    /\ sink' = << ProcessCustomExtraction(ret) >>
    /\ UNCHANGED <<pc, api_key, content_type, max_retries, retry_interval,
                   operation_location, headers, retries, nbuilt, postLog,
                   getLog, sleeps, slept, outcome, error, ret, results, env,
                   blob, raised, others>>

IdemNext == IdemCanonicalize \/ IdemWrap \/ IdemCanonicalizeAgain

IdemSpec == IdemInit /\ [][IdemNext]_vars

\* C27: canonicalizing a canonical pair of string and number values, wrapped
\* back into a `contents[0].fields` result whose entries carry only
\* valueString or valueNumber and the confidence, returns the same fields
\* mapping and the same confidences mapping.
C27_CanonicalizeIdempotent ==
    bpc = "recanonical"
    => /\ sink[1].extracted_fields = results.extracted_fields
       /\ sink[1].confidence_scores = results.confidence_scores

\* a pair with a string and a number, wrapped and canonicalized again
C27_Witness ==
    /\ bpc = "recanonical"
    /\ results.extracted_fields
          = [invoice_number |-> "INV-1", total |-> "42.5"]
    /\ results.confidence_scores = [invoice_number |-> 93, total |-> 40]
    /\ ret.contents[1].fields["invoice_number"]
          = [valueString |-> "INV-1", confidence |-> 93]
    /\ ret.contents[1].fields["total"]
          = [valueNumber |-> "42.5", confidence |-> 40]
    /\ sink[1].extracted_fields
          = [invoice_number |-> "INV-1", total |-> "42.5"]

----------------------------------------------------------------------------
(* The quality assessor alone: assess_extraction_quality on one list *)

\* confidences, in hundredths
Confidences == {10, 23, 34, 50, 80, 81, 93, 99, 100}

\* the lists of the docstring of assess_extraction_quality
DocumentedExamples ==
    { <<95, 92, 88, 91>>, <<85, 75, 82, 78>>, <<65, 55, 72, 48>>,
      <<35, 42, 38, 45>>, << >> }

\* every list of up to MaxConfidences confidences, the documented lists, and
\* lists of four whose mean is 0.9
ConfidenceLists ==
    UNION { [1..n -> Confidences] : n \in 0..MaxConfidences }
    \cup DocumentedExamples
    \cup { <<81, 81, 99, 99>>, <<80, 80, 100, 100>>, <<93, 93, 93, 81>> }

QualityInit ==
    /\ pc = "done"
    /\ api_key = "key-1"
    /\ content_type \in ContentTypes
    /\ max_retries = 0
    /\ retry_interval = 1
    /\ operation_location = None
    /\ headers = [id |-> 0, h |-> <<>>]
    /\ retries = 0
    /\ nbuilt = 0
    /\ postLog = <<>>
    /\ getLog = <<>>
    /\ sleeps = 0
    /\ slept = 0
    /\ outcome = "Succeeded"
    /\ error = NoError
    /\ ret \in ConfidenceLists
    /\ env = [endpoint |-> None, key |-> None, analyzer |-> None]
    /\ blob = [name |-> None, uri |-> None, length |-> 0]
    /\ bpc = "quality"
    /\ results = NoValue
    /\ sink = <<>>
    /\ raised = NoError
    /\ others = NoOthers

\* assess_extraction_quality(ret)
Assess ==
    /\ bpc = "quality"
    /\ bpc' = "assessed"
    /\ results' = [label |-> AssessExtractionQuality(ret)]
    /\ UNCHANGED <<pc, api_key, content_type, max_retries, retry_interval,
                   operation_location, headers, retries, nbuilt, postLog,
                   getLog, sleeps, slept, outcome, error, ret, env, blob, sink,
                   raised, others>>

QualitySpec == QualityInit /\ [][Assess]_vars

\* C28: with avg the mean of a non-empty list and highRatio the fraction of
\* its values strictly above 0.8, the label is excellent iff avg > 0.9 and
\* highRatio > 0.8, otherwise good iff avg > 0.7 and highRatio > 0.6, otherwise
\* fair iff avg > 0.5, otherwise poor; every comparison is strict, so a mean
\* or a ratio exactly on a threshold falls to the lower band; the empty list
\* gives no_data.
C28_StrictThresholds ==
    bpc = "assessed"
    => LET n == Len(ret)
           total == Sum(ret)
           high == Cardinality({i \in 1..n : ret[i] > 80})
       IN  results.label
              = IF n = 0 THEN "no_data"
                ELSE IF total > 90 * n /\ 10 * high > 8 * n THEN "excellent"
                ELSE IF total > 70 * n /\ 10 * high > 6 * n THEN "good"
                ELSE IF total > 50 * n THEN "fair"
                ELSE "poor"

\* C29: the labels of the documented examples: [0.95, 0.92, 0.88, 0.91] is
\* excellent, [0.85, 0.75, 0.82, 0.78] is good, [0.65, 0.55, 0.72, 0.48] is
\* fair, [0.35, 0.42, 0.38, 0.45] is poor and [] is no_data.
C29_DocumentedLabels ==
    bpc = "assessed"
    => /\ ret = <<95, 92, 88, 91>> => results.label = "excellent"
       /\ ret = <<85, 75, 82, 78>> => results.label = "good"
       /\ ret = <<65, 55, 72, 48>> => results.label = "fair"
       /\ ret = <<35, 42, 38, 45>> => results.label = "poor"
       /\ ret = << >> => results.label = "no_data"

----------------------------------------------------------------------------
(* The blob-triggered pipeline: process_document_blob over analyze_document *)
(*                                                                         *)
(* A blob name is a tuple of characters; a name that is None and a name     *)
(* that is empty are both falsy and both written <<>>.                      *)

RECURSIVE Replace(_, _, _)
\* str.replace(old, new) for a one-character old
Replace(s, old, new) ==
    IF s = <<>> THEN <<>>
    ELSE <<IF Head(s) = old THEN new ELSE Head(s)>> \o Replace(Tail(s), old, new)

RECURSIVE Join(_)
\* the string of a tuple of characters
Join(s) == IF s = <<>> THEN "" ELSE Head(s) \o Join(Tail(s))

\* blob_name.replace("/", "_").replace(".", "_")
DocId_SlashOnly(blob_name) == Replace(blob_name, "/", "_")

DocId(blob_name) == Replace(Replace(blob_name, "/", "_"), ".", "_")

ErrorId_NoSuffix(blob_name) == DocId(blob_name)

\* blob_name.replace("/", "_").replace(".", "_") + "_error"
ErrorId(blob_name) == DocId(blob_name) \o <<"_", "e", "r", "r", "o", "r">>

\* myblob.name or "unknown"
BlobName(b) == IF b.name = <<>> THEN <<"u", "n", "k", "n", "o", "w", "n">> ELSE b.name

\* the index of the last occurrence of c in s, 0 when there is none
LastIndexOf(s, c) ==
    LET hits == {i \in 1..Len(s) : s[i] = c}
    IN  IF hits = {} THEN 0 ELSE CHOOSE i \in hits : \A j \in hits : j <= i

\* Path(file_path).name
PathName(path) == SubSeq(path, LastIndexOf(path, "/") + 1, Len(path))

\* Path(file_path).suffix: from the last dot of the name, unless the name starts
\* or ends with it
Suffix(path) ==
    LET name == PathName(path)
        i == LastIndexOf(name, ".")
    IN  IF 1 < i /\ i < Len(name) THEN SubSeq(name, i, Len(name)) ELSE <<>>

OctetStream == "application/octet-stream"

GetContentType_CaseSensitive(filename) ==
    LET extension == Suffix(filename)
    IN  IF extension = <<".", "p", "d", "f">> THEN "application/pdf"
        ELSE IF extension = <<".", "p", "n", "g">> THEN "image/png"
        ELSE OctetStream

\* get_content_type
GetContentType(filename) ==
    LET extension == Lower(Suffix(filename))
    IN  IF extension = <<".", "p", "d", "f">> THEN "application/pdf"
        ELSE IF extension \in {<<".", "j", "p", "g">>, <<".", "j", "p", "e", "g">>}
        THEN "image/jpeg"
        ELSE IF extension = <<".", "p", "n", "g">> THEN "image/png"
        ELSE IF extension = <<".", "b", "m", "p">> THEN "image/bmp"
        ELSE IF extension \in {<<".", "t", "i", "f", "f">>, <<".", "t", "i", "f">>}
        THEN "image/tiff"
        ELSE IF extension = <<".", "g", "i", "f">> THEN "image/gif"
        ELSE OctetStream

\* os.environ.get(name, "")
EnvGet(v) == IF v = None THEN "" ELSE v

\* get_credentials_from_env
GetCredentialsFromEnv(e) ==
    [CONTENT_UNDERSTANDING_ENDPOINT |-> EnvGet(e.endpoint),
     CONTENT_UNDERSTANDING_KEY |-> EnvGet(e.key),
     ANALYZER_NAME |-> EnvGet(e.analyzer)]

ConfigComplete_EndpointOnly(config) == config.CONTENT_UNDERSTANDING_ENDPOINT # ""

\* all([endpoint, key, analyzer])
ConfigComplete(config) ==
    /\ config.CONTENT_UNDERSTANDING_ENDPOINT # ""
    /\ config.CONTENT_UNDERSTANDING_KEY # ""
    /\ config.ANALYZER_NAME # ""

\* raise ValueError("Missing required configuration. Check environment variables.")
MissingConfigurationError ==
    [type |-> "ValueError", kind |-> "ConfigurationError",
     message |-> "Missing required configuration. Check environment variables."]

\* str(e) of each exception the pipeline raises
StrOf(e) ==
    IF e.kind = "SubmissionError"
    THEN IF e.cause = "status"
         THEN "Failed to submit document: " \o ToString(e.code) \o " - " \o e.text
         ELSE "No operation location returned from API"
    ELSE IF e.kind = "PollError"
    THEN "Failed to get results: " \o ToString(e.code) \o " - " \o e.text
    ELSE IF e.kind = "AnalysisFailedError"
    THEN "Analysis failed: " \o e.message
    ELSE IF e.kind = "UnknownStatusError"
    THEN "Unknown status: " \o Join(e.status)
    ELSE IF e.kind = "TimeoutError"
    THEN "Analysis timed out after " \o ToString(e.seconds) \o " seconds"
    ELSE IF e.kind = "TypeError"
    THEN "argument of type 'int' is not iterable"
    ELSE e.message

\* isinstance(e, ValueError): what `except ValueError` catches
IsValueError_ConfigurationOnly(e) == e.kind = "ConfigurationError"

IsValueError(e) == e.type = "ValueError"

\* poll_for_results(operation_location, api_key): the defaults of the signature
DefaultMaxRetries == 60

DefaultRetryInterval == 2

\* cosmos_document
CompletedDocument(b, res) ==
    [id |-> DocId(BlobName(b)),
     blobName |-> BlobName(b),
     blobUri |-> b.uri,
     blobSize |-> b.length,
     analysisResults |-> res,
     processingStatus |-> "completed",
     timestamp |-> res.metadata.analysis_timestamp]

\* error_document
ErrorDocument(b, errorType, e) ==
    [id |-> ErrorId(BlobName(b)),
     blobName |-> BlobName(b),
     blobUri |-> b.uri,
     processingStatus |-> "failed",
     errorType |-> errorType,
     errorMessage |-> StrOf(e)]

(* Inputs of the pipeline *)

\* an environment variable is set, set to the empty string, or not set
Envs ==
    [endpoint : {"https://cu.example.net", "", None},
     key : {"key-1", "", None},
     analyzer : {"invoice-analyzer", "", None}]

BlobNames ==
    { <<"i", "n", "/", "a", ".", "p", "d", "f">>,
      <<"s", "c", "a", "n", ".", "P", "N", "G">>,
      <<"v", "1", ".", "2", "/", "d", "o", "c">>,
      <<>> }

Blobs == [name : BlobNames, uri : {"https://store.example.net/blob"}, length : {2048}]

\* time.strftime("%Y-%m-%d %H:%M:%S UTC", time.gmtime())
Clock == {"2025-06-01 12:00:00 UTC", "2025-06-01 12:00:07 UTC"}

BlobSubmitResponses ==
    { [status_code |-> 202, text |-> "",
       headers |-> (H_RequestId :> "req-1") @@ (H_OperationLocation :> Url1)],
      [status_code |-> 202, text |-> "", headers |-> (H_RequestId :> "req-1")],
      [status_code |-> 200, text |-> "",
       headers |-> (H_RequestId :> "req-1") @@ (H_OperationLocation :> Url1)],
      [status_code |-> 400, text |-> "Bad Request",
       headers |-> (H_RequestId :> "req-1")] }

InvoiceRawResult ==
    [contents |-> << [fields |->
        [invoice_number |-> [valueString |-> "INV-1", confidence |-> 93],
         total |-> Scalar("7", "num")]] >>]

\* contents [{fields: {Total: {valueNumber: 42.5, confidence: 0.93}}}]
TotalRawResult ==
    [contents |-> << [fields |->
        [Total |-> [valueNumber |-> "42.5", confidence |-> 93]]] >>]

BlobRawResults ==
    { InvoiceRawResult,
      TotalRawResult,
      [contents |-> << [fields |->
          [total |-> [valueArray |-> << Scalar("7", "num") >>,
                      confidence |-> 60]]] >>],
      [contents |-> << >>] }

BlobPollBodies ==
    { [status |-> S_Running] }
    \cup { [status |-> S_Succeeded, result |-> raw] : raw \in BlobRawResults }
    \cup { [status |-> S_Failed,
            error |-> [code |-> "InvalidRequest",
                       message |-> "Document format not supported"]],
           [status |-> S_Canceled] }

BlobPollResponses ==
    { [status_code |-> 200, text |-> "", body |-> b] : b \in BlobPollBodies }
    \cup { [status_code |-> 200, text |-> NotJsonBody.notjson, body |-> NotJsonBody],
           [status_code |-> 500, text |-> "Service Unavailable",
            body |-> [status |-> S_Running]] }

(* process_document_blob *)

BlobInit ==
    /\ pc = "idle"
    /\ api_key = None
    /\ content_type = None
    /\ max_retries = DefaultMaxRetries
    /\ retry_interval = DefaultRetryInterval
    /\ operation_location = None
    /\ headers = [id |-> 0, h |-> <<>>]
    /\ retries = 0
    /\ nbuilt = 0
    /\ postLog = <<>>
    /\ getLog = <<>>
    /\ sleeps = 0
    /\ slept = 0
    /\ outcome = "Pending"
    /\ error = NoError
    /\ ret = NoValue
    /\ env \in Envs
    /\ blob \in Blobs
    /\ bpc = "trigger"
    /\ results = NoValue
    /\ sink = <<>>
    /\ raised = NoError
    /\ others = NoOthers

\* the try block up to the call of submit_document: the configuration is read
\* and validated, the blob is read, analyze_document picks the content type
BlobStart ==
    /\ bpc = "trigger"
    /\ bpc' = "try"
    /\ LET config == GetCredentialsFromEnv(env)
       IN  IF ~ConfigComplete(config)
           THEN /\ error' = MissingConfigurationError
                /\ UNCHANGED <<pc, api_key, content_type>>
           ELSE /\ api_key' = config.CONTENT_UNDERSTANDING_KEY
                /\ content_type' = GetContentType(BlobName(blob))
                /\ pc' = "submit"
                /\ UNCHANGED error
    /\ UNCHANGED <<max_retries, retry_interval, operation_location, headers,
                   retries, nbuilt, postLog, getLog, sleeps, slept, outcome,
                   ret, env, blob, results, sink, raised>>
    /\ UNCHANGED others

\* return process_results(results, filename, analyzer_name), back in the handler
BlobProcessResults(now) ==
    /\ bpc = "try"
    /\ pc = "done"
    /\ outcome = "Succeeded"
    /\ error = NoError
    /\ IF CustomExtractionRaises(ret)
       THEN /\ error' = ExtractionTypeError
            /\ UNCHANGED <<results, bpc>>
       ELSE /\ results' = ProcessResults(ret, BlobName(blob),
                              GetCredentialsFromEnv(env).ANALYZER_NAME, now)
            /\ bpc' = "store"
            /\ UNCHANGED error
    /\ UNCHANGED <<pc, api_key, content_type, max_retries, retry_interval,
                   operation_location, headers, retries, nbuilt, postLog,
                   getLog, sleeps, slept, outcome, ret, env, blob, sink, raised>>
    /\ UNCHANGED others

\* outputDocument.set(func.Document.from_dict(cosmos_document))
BlobStore ==
    /\ bpc = "store"
    /\ sink' = Append(sink, CompletedDocument(blob, results))
    /\ bpc' = "returned"
    /\ UNCHANGED <<pc, api_key, content_type, max_retries, retry_interval,
                   operation_location, headers, retries, nbuilt, postLog,
                   getLog, sleeps, slept, outcome, error, ret, env, blob,
                   results, raised>>
    /\ UNCHANGED others

\* except ValueError as ve: up to outputDocument.set
BlobExceptValueError ==
    /\ bpc = "try"
    /\ error # NoError
    /\ IsValueError(error)
    /\ sink' = Append(sink, ErrorDocument(blob, "configuration_error", error))
    /\ bpc' = "reraise"
    /\ UNCHANGED <<pc, api_key, content_type, max_retries, retry_interval,
                   operation_location, headers, retries, nbuilt, postLog,
                   getLog, sleeps, slept, outcome, error, ret, env, blob,
                   results, raised>>
    /\ UNCHANGED others

BlobExceptException_Retry ==
    /\ bpc = "try"
    /\ error # NoError
    /\ ~IsValueError(error)
    /\ pc' = "submit"
    /\ UNCHANGED <<bpc, api_key, content_type, max_retries, retry_interval,
                   operation_location, headers, retries, nbuilt, postLog,
                   getLog, sleeps, slept, outcome, error, ret, env, blob,
                   results, sink, raised>>
    /\ UNCHANGED others

\* except Exception as e: up to outputDocument.set
BlobExceptException ==
    /\ bpc = "try"
    /\ error # NoError
    /\ ~IsValueError(error)
    /\ sink' = Append(sink, ErrorDocument(blob, "processing_error", error))
    /\ bpc' = "reraise"
    /\ UNCHANGED <<pc, api_key, content_type, max_retries, retry_interval,
                   operation_location, headers, retries, nbuilt, postLog,
                   getLog, sleeps, slept, outcome, error, ret, env, blob,
                   results, raised>>
    /\ UNCHANGED others

BlobReraise_Swallow ==
    /\ bpc = "reraise"
    /\ bpc' = "returned"
    /\ UNCHANGED <<pc, api_key, content_type, max_retries, retry_interval,
                   operation_location, headers, retries, nbuilt, postLog,
                   getLog, sleeps, slept, outcome, error, ret, env, blob,
                   results, sink, raised>>
    /\ UNCHANGED others

\* the bare `raise` that ends either handler
BlobReraise ==
    /\ bpc = "reraise"
    /\ raised' = error
    /\ bpc' = "raised"
    /\ UNCHANGED <<pc, api_key, content_type, max_retries, retry_interval,
                   operation_location, headers, retries, nbuilt, postLog,
                   getLog, sleeps, slept, outcome, error, ret, env, blob,
                   results, sink>>
    /\ UNCHANGED others

BlobNext ==
    \/ BlobStart
    \/ \E resp \in BlobSubmitResponses : SubmitDocument(resp)
    \/ PollEnter
    \/ \E resp \in BlobPollResponses : PollGet(resp)
    \/ PollSleep
    \/ PollTimeout
    \/ \E now \in Clock : BlobProcessResults(now)
    \/ BlobStore
    \/ BlobExceptValueError
    \/ BlobExceptException
    \/ BlobReraise

BlobSpec == BlobInit /\ [][BlobNext]_vars

----------------------------------------------------------------------------
(* Properties of the blob-triggered pipeline *)

\* an exception is in flight or has left the handler
Failing == error # NoError

\* the records handed to the sink, by status
FailedRecords == {i \in 1..Len(sink) : sink[i].processingStatus = "failed"}
CompletedRecords == {i \in 1..Len(sink) : sink[i].processingStatus = "completed"}

\* the invocation is over
Ended == bpc \in {"returned", "raised"}

\* C14: every failing invocation of the blob-triggered pipeline first hands
\* exactly one record with status failed, an error kind and an error message to
\* the sink and then re-raises the same error; no failing invocation ends
\* without a failed record, and no invocation writes both a completed and a
\* failed record.
C14_RecordThenReraise ==
    /\ (bpc = "try" /\ Failing)
           => /\ sink = <<>>
              /\ raised = NoError
              /\ ENABLED (BlobExceptValueError \/ BlobExceptException)
    /\ (bpc = "reraise")
           => /\ Failing
              /\ raised = NoError
              /\ ENABLED BlobReraise
    /\ (bpc \in {"reraise", "raised"})
           => /\ Len(sink) = 1
              /\ sink[1].processingStatus = "failed"
              /\ sink[1].errorType \in {"configuration_error", "processing_error"}
              /\ sink[1].errorMessage = StrOf(error)
    /\ (raised # NoError) => (bpc = "raised" /\ raised = error)
    /\ (Ended /\ Failing) => (bpc = "raised" /\ raised = error)
    /\ (bpc = "raised") => Failing
    /\ ~(FailedRecords # {} /\ CompletedRecords # {})

\* the poller ran out of its 60 attempts, and the record and the raise followed
C14_Witness ==
    /\ bpc = "raised"
    /\ raised.kind = "TimeoutError"
    /\ GetCount = DefaultMaxRetries
    /\ Len(sink) = 1
    /\ sink[1].errorMessage = "Analysis timed out after 120 seconds"

\* C15: in a failed record the error kind is configuration_error exactly when
\* the failure is a missing or empty endpoint, key or analyzer, and
\* processing_error for every failure of submission or polling.
C15_ErrorKindTaxonomy ==
    \A i \in FailedRecords :
        /\ (sink[i].errorType = "configuration_error")
               <=> (error.kind = "ConfigurationError")
        /\ (error.kind \in {"SubmissionError", "PollError", "AnalysisFailedError",
                            "UnknownStatusError", "TimeoutError"})
               => (sink[i].errorType = "processing_error")

\* the submission was accepted with an operation location and the first status
\* check reported succeeded with the one-field result
TotalSucceededAtOnce ==
    /\ Len(postLog) >= 1
    /\ postLog[1].resp.status_code = 202
    /\ ~Falsy(HeaderGet(postLog[1].resp.headers, H_OperationLocation))
    /\ Len(getLog) >= 1
    /\ getLog[1].resp.status_code = 200
    /\ IsJson(getLog[1].resp.body)
    /\ StatusOf(getLog[1].resp.body) = S_succeeded
    /\ "result" \in DOMAIN getLog[1].resp.body
    /\ getLog[1].resp.body.result = TotalRawResult

\* C32: end to end, when the submission returns 202 with an operation location
\* and the first status check reports succeeded with contents
\* [{fields: {Total: {valueNumber: 42.5, confidence: 0.93}}}], the invocation
\* makes exactly one POST and one GET with no delay, raises nothing, and its
\* one record is completed with extractedFields {Total: 42.5},
\* confidenceScores {Total: 0.93} and quality excellent.
C32_EndToEnd ==
    TotalSucceededAtOnce
    => /\ Len(postLog) = 1
       /\ Len(getLog) = 1
       /\ sleeps = 0
       /\ slept = 0
       /\ error = NoError
       /\ bpc # "raised"
       /\ bpc = "returned"
          => /\ Len(sink) = 1
             /\ sink[1].processingStatus = "completed"
             /\ sink[1].analysisResults.extracted_fields = [Total |-> "42.5"]
             /\ sink[1].analysisResults.confidence_scores = [Total |-> 93]
             /\ sink[1].analysisResults.summary.extraction_quality = "excellent"

C32_Witness ==
    /\ TotalSucceededAtOnce
    /\ bpc = "returned"
    /\ Len(sink) = 1
    /\ sink[1].analysisResults.summary.extraction_quality = "excellent"

\* C16: after any failure of submission or polling the pipeline issues no
\* further request for the document, and the submit POST is issued at most once
\* per invocation.
C16_NoRequestAfterFailure ==
    /\ [](Len(postLog) <= 1)
    /\ [][Failing => (postLog' = postLog /\ getLog' = getLog)]_vars

\* a failed status check, recorded and re-raised, after one POST
C16_Witness ==
    /\ bpc = "raised"
    /\ raised.kind = "PollError"
    /\ Len(postLog) = 1
    /\ GetCount >= 2

\* C17: within one invocation no status-check GET is issued before the submit
\* POST returned 202 with an operation locator, canonicalization and packaging
\* happen only after a status check reported succeeded, and a completed record
\* reaches the sink only after packaging.
C17_StrictOrder ==
    /\ (GetCount > 0)
           => /\ Len(postLog) = 1
              /\ postLog[1].resp.status_code = 202
              /\ ~Falsy(HeaderGet(postLog[1].resp.headers, H_OperationLocation))
              /\ \A k \in 1..GetCount :
                     getLog[k].url
                         = HeaderGet(postLog[1].resp.headers, H_OperationLocation)
    /\ (results # NoValue \/ bpc = "store")
           => /\ GetCount > 0
              /\ Resp(GetCount).status_code = 200
              /\ IsJson(Resp(GetCount).body)
              /\ StatusOf(Resp(GetCount).body) = S_succeeded
              /\ ret = ExtractPayload(Resp(GetCount).body)
    /\ (CompletedRecords # {})
           => /\ results # NoValue
              /\ bpc = "returned"
              /\ sink = << CompletedDocument(blob, results) >>

\* the completed record of a document that was polled three times
C17_Witness ==
    /\ bpc = "returned"
    /\ GetCount = 3
    /\ Len(sink) = 1
    /\ sink[1].processingStatus = "completed"
    /\ sink[1].analysisResults.summary.total_fields_extracted = 1

----------------------------------------------------------------------------
(* The blob trigger invoked again and again over one sink                   *)
(*                                                                         *)
(* `sink` lists the documents handed to the output binding, one per         *)
(* invocation; the container keeps, for each id, the last of them.          *)

MaxInvocations == 2

SinkBlobNames ==
    { <<"a", "/", "b">>, <<"a", ".", "b">>, <<"a">>,
      <<"a", "_", "e", "r", "r", "o", "r">> }

SinkBlobs ==
    [name : SinkBlobNames, uri : {"https://store.example.net/blob"}, length : {2048}]

SinkEnvs ==
    [endpoint : {"https://cu.example.net"}, key : {"key-1", None},
     analyzer : {"invoice-analyzer"}]

SinkSubmitResponses ==
    { [status_code |-> 202, text |-> "",
       headers |-> (H_RequestId :> "req-1") @@ (H_OperationLocation :> Url1)],
      [status_code |-> 400, text |-> "Bad Request",
       headers |-> (H_RequestId :> "req-1")] }

\* the service answers the first status check with a final status
SinkPollResponses ==
    { [status_code |-> 200, text |-> "", body |-> b] :
        b \in { [status |-> S_Succeeded, result |-> TotalRawResult],
                [status |-> S_Failed] } }

SinkInit ==
    /\ pc = "idle"
    /\ api_key = None
    /\ content_type = None
    /\ max_retries = DefaultMaxRetries
    /\ retry_interval = DefaultRetryInterval
    /\ operation_location = None
    /\ headers = [id |-> 0, h |-> <<>>]
    /\ retries = 0
    /\ nbuilt = 0
    /\ postLog = <<>>
    /\ getLog = <<>>
    /\ sleeps = 0
    /\ slept = 0
    /\ outcome = "Pending"
    /\ error = NoError
    /\ ret = NoValue
    /\ env \in SinkEnvs
    /\ blob \in SinkBlobs
    /\ bpc = "trigger"
    /\ results = NoValue
    /\ sink = <<>>
    /\ raised = NoError
    /\ others = NoOthers

\* @app.blob_trigger: the next blob event starts a new invocation, whose locals
\* are fresh; the container keeps what the earlier invocations handed over
BlobTrigger ==
    /\ bpc \in {"returned", "raised"}
    /\ Len(sink) < MaxInvocations
    /\ pc' = "idle"
    /\ api_key' = None
    /\ content_type' = None
    /\ operation_location' = None
    /\ headers' = [id |-> 0, h |-> <<>>]
    /\ retries' = 0
    /\ nbuilt' = 0
    /\ postLog' = <<>>
    /\ getLog' = <<>>
    /\ sleeps' = 0
    /\ slept' = 0
    /\ outcome' = "Pending"
    /\ error' = NoError
    /\ ret' = NoValue
    /\ env' \in SinkEnvs
    /\ blob' \in SinkBlobs
    /\ bpc' = "trigger"
    /\ results' = NoValue
    /\ raised' = NoError
    /\ UNCHANGED <<max_retries, retry_interval, sink, others>>

SinkNext ==
    \/ BlobStart
    \/ \E resp \in SinkSubmitResponses : SubmitDocument(resp)
    \/ PollEnter
    \/ \E resp \in SinkPollResponses : PollGet(resp)
    \/ \E now \in Clock : BlobProcessResults(now)
    \/ BlobStore
    \/ BlobExceptValueError
    \/ BlobExceptException
    \/ BlobReraise
    \/ BlobTrigger

SinkSpec == SinkInit /\ [][SinkNext]_vars

\* the ids under which the container holds a document
StoredIds == {sink[i].id : i \in 1..Len(sink)}

\* upsert by id: the container holds the last document handed over under each id
Stored ==
    [id \in StoredIds |->
        LET last == CHOOSE i \in 1..Len(sink) :
                       /\ sink[i].id = id
                       /\ \A j \in 1..Len(sink) : sink[j].id = id => j <= i
        IN  sink[last]]

\* the stored documents of a source name, by status
StoredOf(name, status) ==
    {id \in StoredIds : Stored[id].blobName = name
                        /\ Stored[id].processingStatus = status}

\* C36: two different source names never produce the same record identifier:
\* whatever the status of the two records, a record written for one document
\* never takes the place of a record of another document.
C36_DistinctNamesDistinctIds ==
    \A i, j \in 1..Len(sink) :
       sink[i].blobName # sink[j].blobName => sink[i].id # sink[j].id

\* C37 as claimed: the container never holds at the same time a completed
\* record and a failed record for one source name.
C37_NeverCompletedAndFailed ==
    \A i \in 1..Len(sink) :
       StoredOf(sink[i].blobName, "completed") = {}
       \/ StoredOf(sink[i].blobName, "failed") = {}

\* C37: over any sequence of invocations for one source name the container
\* holds at most one completed and at most one failed record for that name,
\* under different ids: a run replaces the earlier record of its own status
\* and leaves the record of the other status in place.
C37_OneRecordPerStatus ==
    \A i \in 1..Len(sink) :
       /\ Cardinality(StoredOf(sink[i].blobName, "completed")) <= 1
       /\ Cardinality(StoredOf(sink[i].blobName, "failed")) <= 1
       /\ \A j \in 1..Len(sink) :
             sink[i].blobName = sink[j].blobName
             => (sink[i].id = sink[j].id)
                   = (sink[i].processingStatus = sink[j].processingStatus)

\* a failed run and then a successful run of one name: both records are held
C37_Witness ==
    /\ Len(sink) = 2
    /\ sink[1].blobName = sink[2].blobName
    /\ sink[1].processingStatus = "failed"
    /\ sink[2].processingStatus = "completed"
    /\ Cardinality(StoredIds) = 2

----------------------------------------------------------------------------
(* The event-driven pipeline: process_document_internal                     *)
(*                                                                         *)
(* It calls analyze_document(document_bytes, endpoint, analyzer_id,         *)
(* credential, subscription_key), whose body is not in the source tree: the *)
(* header construction, the submission and the polling below follow the     *)
(* component design of the specification (Authenticator, Submission client, *)
(* Poller).                                                                 *)

H_Authorization == <<"A", "u", "t", "h", "o", "r", "i", "z", "a", "t", "i", "o", "n">>

\* Authenticator: no authentication method is available
AuthRaises(credential, subscription_key) ==
    credential = None /\ Falsy(subscription_key)

GetAuthHeaders_KeyFirst(credential, subscription_key, token) ==
    IF ~Falsy(subscription_key)
    THEN IF credential # None
         THEN (H_SubscriptionKey :> subscription_key)
                  @@ (H_Authorization :> "Bearer " \o token)
         ELSE (H_SubscriptionKey :> subscription_key)
    ELSE (H_Authorization :> "Bearer " \o token)

\* Authenticator: the token provider first, else the subscription key
GetAuthHeaders(credential, subscription_key, token) ==
    IF credential # None THEN (H_Authorization :> "Bearer " \o token)
    ELSE (H_SubscriptionKey :> subscription_key)

\* Authenticator: fails with ConfigurationError
NoAuthenticationError ==
    [type |-> "ValueError", kind |-> "ConfigurationError",
     message |-> "Either credential or subscription_key must be provided"]

\* raise ValueError("CONTENT_UNDERSTANDING_ENDPOINT environment variable is required")
EndpointRequiredError ==
    [type |-> "ValueError", kind |-> "ConfigurationError",
     message |-> "CONTENT_UNDERSTANDING_ENDPOINT environment variable is required"]

\* ANALYZER_ID = os.environ.get("ANALYZER_NAME", "custom-schema-analyzer")
AnalyzerId(e) == IF e.analyzer = None THEN "custom-schema-analyzer" ELSE e.analyzer

SubscriptionKeyArg_Always(e) == e.key

\* subscription_key=ACU_KEY if not credential else None
SubscriptionKeyArg(e) == IF e.credential = None THEN e.key ELSE None

\* the environment of the function app, and what get_credential() returns in it
EventEnvs ==
    [endpoint : {"https://cu.example.net", "", None},
     key : {"key-1", "", None},
     analyzer : {"invoice-analyzer", None},
     credential : {"DefaultAzureCredential", None}]

EventDocuments ==
    [name : {<<"i", "n", "/", "a", ".", "p", "d", "f">>},
     contentType : {"application/pdf"}]

EventPollResponses ==
    { [status_code |-> 200, text |-> "", body |-> [status |-> S_Running]],
      [status_code |-> 200, text |-> "",
       body |-> [status |-> S_Succeeded, result |-> InvoiceRawResult]],
      [status_code |-> 200, text |-> "",
       body |-> [status |-> S_Failed,
                 error |-> [message |-> "Document format not supported"]]],
      [status_code |-> 500, text |-> "Service Unavailable",
       body |-> [status |-> S_Running]] }

\* str(uuid.uuid4())
Uuids == {<<"1", "b", "4", "e", "2", "8", "b", "a">>, <<"9", "f", "0", "c", "6", "d", "5", "1">>}

\* credential.get_token(...).token
Tokens == {"eyJ0eXAi"}

\* cosmos_document of process_document_internal
ProcessedDocument(doc, res, now) ==
    [id |-> doc.document_id,
     documentId |-> doc.document_id,
     fileName |-> doc.name,
     contentType |-> doc.contentType,
     processedAt |-> now,
     extractedFields |-> ExtractedFields(SelectFields(res)),
     rawResult |-> res,
     status |-> "processed"]

EventInit ==
    /\ pc = "idle"
    /\ api_key = None
    /\ content_type = None
    /\ max_retries = DefaultMaxRetries
    /\ retry_interval = DefaultRetryInterval
    /\ operation_location = None
    /\ headers = [id |-> 0, h |-> <<>>]
    /\ retries = 0
    /\ nbuilt = 0
    /\ postLog = <<>>
    /\ getLog = <<>>
    /\ sleeps = 0
    /\ slept = 0
    /\ outcome = "Pending"
    /\ error = NoError
    /\ ret = NoValue
    /\ env \in EventEnvs
    /\ blob \in EventDocuments
    /\ bpc = "event"
    /\ results = NoValue
    /\ sink = <<>>
    /\ raised = NoError
    /\ others = NoOthers

\* process_document_internal up to the call of analyze_document
EventStart(uid) ==
    /\ bpc = "event"
    /\ blob' = blob @@ [document_id |-> uid]
    /\ IF Falsy(env.endpoint)
       THEN /\ error' = EndpointRequiredError
            /\ raised' = EndpointRequiredError
            /\ bpc' = "propagated"
            /\ UNCHANGED <<pc, api_key, content_type>>
       ELSE /\ api_key' = SubscriptionKeyArg(env)
            /\ content_type' = blob.contentType
            /\ pc' = "esubmit"
            /\ bpc' = "analyzing"
            /\ UNCHANGED <<error, raised>>
    /\ UNCHANGED <<max_retries, retry_interval, operation_location, headers,
                   retries, nbuilt, postLog, getLog, sleeps, slept, outcome,
                   ret, env, results, sink>>
    /\ UNCHANGED others

\* Submission client: the headers of the Authenticator and the POST
EventSubmit(resp, token) ==
    /\ pc = "esubmit"
    /\ IF AuthRaises(env.credential, api_key)
       THEN /\ error' = NoAuthenticationError
            /\ outcome' = "ConfigurationError"
            /\ pc' = "done"
            /\ UNCHANGED <<nbuilt, postLog, operation_location>>
       ELSE /\ nbuilt' = nbuilt + 1
            /\ postLog' = Append(postLog,
                   [hid |-> nbuilt + 1,
                    headers |-> (H_ContentType :> content_type)
                                @@ GetAuthHeaders(env.credential, api_key, token),
                    resp |-> resp])
            /\ IF ~SubmitAccepted(resp.status_code)
               THEN /\ error' = SubmitStatusError(resp)
                    /\ outcome' = "SubmissionError"
                    /\ pc' = "done"
                    /\ UNCHANGED operation_location
               ELSE LET loc == HeaderGet(resp.headers, H_OperationLocation)
                    IN  IF Falsy(loc)
                        THEN /\ error' = SubmitLocationError
                             /\ outcome' = "SubmissionError"
                             /\ pc' = "done"
                             /\ UNCHANGED operation_location
                        ELSE /\ operation_location' = loc
                             /\ pc' = "epoll"
                             /\ UNCHANGED <<error, outcome>>
    /\ UNCHANGED <<api_key, content_type, max_retries, retry_interval, headers,
                   retries, getLog, sleeps, slept, ret>>
    /\ UNCHANGED pipelineVars

\* Poller: one status check with headers built fresh, and the wait after it
EventGet(resp, token) ==
    /\ pc = "epoll"
    /\ LoopContinues(retries, max_retries)
    /\ nbuilt' = nbuilt + 1
    /\ headers' = [id |-> nbuilt + 1,
                   h |-> GetAuthHeaders(env.credential, api_key, token)]
    /\ getLog' = Append(getLog, [hid |-> nbuilt + 1, headers |-> headers'.h,
                                 url |-> operation_location, resp |-> resp])
    /\ IF ~PollOk(resp.status_code)
       THEN /\ error' = PollHttpError(resp)
            /\ outcome' = "PollError"
            /\ pc' = "done"
            /\ UNCHANGED <<ret, retries, sleeps, slept>>
       ELSE IF ~IsJson(resp.body)
       THEN /\ error' = JSONDecodeError
            /\ outcome' = "JSONDecodeError"
            /\ pc' = "done"
            /\ UNCHANGED <<ret, retries, sleeps, slept>>
       ELSE LET status == StatusOf(resp.body)
            IN  IF status = S_succeeded
                THEN /\ ret' = ExtractPayload(resp.body)
                     /\ outcome' = "Succeeded"
                     /\ pc' = "done"
                     /\ UNCHANGED <<error, retries, sleeps, slept>>
                ELSE IF status = S_failed
                THEN /\ error' = AnalysisFailedError(resp.body)
                     /\ outcome' = "AnalysisFailedError"
                     /\ pc' = "done"
                     /\ UNCHANGED <<ret, retries, sleeps, slept>>
                ELSE IF InProgress(status)
                THEN /\ retries' = retries + 1
                     /\ sleeps' = sleeps + 1
                     /\ slept' = slept + retry_interval
                     /\ UNCHANGED <<error, outcome, ret, pc>>
                ELSE /\ error' = UnknownStatusError(status)
                     /\ outcome' = "UnknownStatusError"
                     /\ pc' = "done"
                     /\ UNCHANGED <<ret, retries, sleeps, slept>>
    /\ UNCHANGED <<api_key, content_type, max_retries, retry_interval,
                   operation_location, postLog>>
    /\ UNCHANGED pipelineVars

\* Poller: the attempts are exhausted
EventTimeout ==
    /\ pc = "epoll"
    /\ ~LoopContinues(retries, max_retries)
    /\ error' = PollTimeoutError(max_retries, retry_interval)
    /\ outcome' = "TimeoutError"
    /\ pc' = "done"
    /\ UNCHANGED <<api_key, content_type, max_retries, retry_interval,
                   operation_location, headers, retries, nbuilt, postLog,
                   getLog, sleeps, slept, ret>>
    /\ UNCHANGED pipelineVars

\* except Exception as e: logger.error(...); raise
EventRaise ==
    /\ bpc = "analyzing"
    /\ pc = "done"
    /\ error # NoError
    /\ raised' = error
    /\ bpc' = "propagated"
    /\ UNCHANGED <<pc, api_key, content_type, max_retries, retry_interval,
                   operation_location, headers, retries, nbuilt, postLog,
                   getLog, sleeps, slept, outcome, error, ret, env, blob,
                   results, sink>>
    /\ UNCHANGED others

\* raise ValueError("Cosmos DB configuration missing. ...")
CosmosConfigurationError ==
    [type |-> "ValueError", kind |-> "ConfigurationError",
     message |-> "Cosmos DB configuration missing. Set COSMOS_DB_ENDPOINT with managed identity or COSMOS_DB_CONNECTION_STRING for local development."]

\* what get_cosmos_client() gives: a client, or the error above (None)
CosmosClients == {"CosmosClient", None}

\* extract_fields_from_result, cosmos_document, get_cosmos_client and
\* container.upsert_item
EventStore(now, cosmos_client) ==
    /\ bpc = "analyzing"
    /\ pc = "done"
    /\ error = NoError
    /\ IF CustomExtractionRaises(ret)
       THEN /\ error' = ExtractionTypeError
            /\ raised' = ExtractionTypeError
            /\ bpc' = "propagated"
            /\ UNCHANGED <<results, sink>>
       ELSE IF cosmos_client = None
       THEN /\ error' = CosmosConfigurationError
            /\ raised' = CosmosConfigurationError
            /\ bpc' = "propagated"
            /\ UNCHANGED <<results, sink>>
       ELSE /\ results' = ProcessedDocument(blob, ret, now)
            /\ sink' = Append(sink, results')
            /\ bpc' = "processed"
            /\ UNCHANGED <<error, raised>>
    /\ UNCHANGED <<pc, api_key, content_type, max_retries, retry_interval,
                   operation_location, headers, retries, nbuilt, postLog,
                   getLog, sleeps, slept, outcome, ret, env, blob>>
    /\ UNCHANGED others

EventNext ==
    \/ \E uid \in Uuids : EventStart(uid)
    \/ \E resp \in BlobSubmitResponses, token \in Tokens : EventSubmit(resp, token)
    \/ \E resp \in EventPollResponses, token \in Tokens : EventGet(resp, token)
    \/ EventTimeout
    \/ EventRaise
    \/ \E now \in Clock, cosmos_client \in CosmosClients :
          EventStore(now, cosmos_client)

EventSpec == EventInit /\ [][EventNext]_vars

----------------------------------------------------------------------------
(* The HTTP trigger: process_document_http over process_document_internal   *)
(*                                                                         *)
(* `blob` is the request and then the arguments of                          *)
(* process_document_internal; `others` holds the response once the trigger  *)
(* has answered.                                                            *)

\* req.get_body() and the headers X-Document-Name and Content-Type
HttpRequests ==
    [body : {"", "%PDF-1.7"},
     name : {<<"i", "n", "v", ".", "p", "d", "f">>, <<>>},
     contentType : {"application/pdf", None}]

\* f"document_{uuid.uuid4().hex[:8]}"
GeneratedName(uid) == <<"d", "o", "c", "u", "m", "e", "n", "t", "_">> \o uid

HttpEnvs ==
    [endpoint : {"https://cu.example.net", None},
     key : {"key-1", None},
     analyzer : {"invoice-analyzer"},
     credential : {"DefaultAzureCredential", None}]

HttpInit ==
    /\ pc = "idle"
    /\ api_key = None
    /\ content_type = None
    /\ max_retries = DefaultMaxRetries
    /\ retry_interval = DefaultRetryInterval
    /\ operation_location = None
    /\ headers = [id |-> 0, h |-> <<>>]
    /\ retries = 0
    /\ nbuilt = 0
    /\ postLog = <<>>
    /\ getLog = <<>>
    /\ sleeps = 0
    /\ slept = 0
    /\ outcome = "Pending"
    /\ error = NoError
    /\ ret = NoValue
    /\ env \in HttpEnvs
    /\ blob \in HttpRequests
    /\ bpc = "http"
    /\ results = NoValue
    /\ sink = <<>>
    /\ raised = NoError
    /\ others = NoOthers

\* the HttpResponse objects of process_document_http
BadRequest ==
    [status_code |-> 400, error |-> "No document content provided"]

ServerError(e) ==
    [status_code |-> 500,
     error |-> (IF IsValueError(e) THEN "Configuration error: "
                ELSE "Processing failed: ") \o StrOf(e)]

Success(result) ==
    [status_code |-> 200, success |-> TRUE, documentId |-> result.id,
     fileName |-> result.fileName, processedAt |-> result.processedAt,
     extractedFields |-> result.extractedFields]

\* process_document_http up to the call of process_document_internal; a
\* request without X-Document-Name carries the empty name here
HttpStart(uid) ==
    /\ bpc = "http"
    /\ IF blob.body = ""
       THEN /\ others' = [id |-> 0, response |-> BadRequest]
            /\ bpc' = "responded"
            /\ UNCHANGED blob
       ELSE /\ blob' = [name |-> IF blob.name = <<>> THEN GeneratedName(uid)
                                 ELSE blob.name,
                        contentType |-> IF blob.contentType = None
                                        THEN OctetStream ELSE blob.contentType,
                        body |-> blob.body]
            /\ bpc' = "event"
            /\ UNCHANGED others
    /\ UNCHANGED <<pc, api_key, content_type, max_retries, retry_interval,
                   operation_location, headers, retries, nbuilt, postLog,
                   getLog, sleeps, slept, outcome, error, ret, env, results,
                   sink, raised>>

\* process_document_internal returned: the success response
HttpReturn ==
    /\ bpc = "processed"
    /\ others' = [id |-> 0, response |-> Success(results)]
    /\ bpc' = "responded"
    /\ UNCHANGED <<pc, api_key, content_type, max_retries, retry_interval,
                   operation_location, headers, retries, nbuilt, postLog,
                   getLog, sleeps, slept, outcome, error, ret, env, blob,
                   results, sink, raised>>

HttpExcept_Reraise ==
    /\ bpc = "propagated"
    /\ bpc' = "raised"
    /\ UNCHANGED <<pc, api_key, content_type, max_retries, retry_interval,
                   operation_location, headers, retries, nbuilt, postLog,
                   getLog, sleeps, slept, outcome, error, ret, env, blob,
                   results, sink, raised, others>>

\* except ValueError / except Exception: the error response
HttpExcept ==
    /\ bpc = "propagated"
    /\ others' = [id |-> 0, response |-> ServerError(raised)]
    /\ bpc' = "responded"
    /\ UNCHANGED <<pc, api_key, content_type, max_retries, retry_interval,
                   operation_location, headers, retries, nbuilt, postLog,
                   getLog, sleeps, slept, outcome, error, ret, env, blob,
                   results, sink, raised>>

HttpNext ==
    \/ \E uid \in Uuids : HttpStart(uid)
    \/ EventNext
    \/ HttpReturn
    \/ HttpExcept

HttpSpec == HttpInit /\ [][HttpNext]_vars

\* process_document_internal was called
InternalCalled == "document_id" \in DOMAIN blob

\* analyze_document raised
AnalysisFailed == outcome \notin {"Pending", "Succeeded"}

\* the trigger has answered
Responded == bpc = "responded" /\ "response" \in DOMAIN others

\* C38: in process_document_internal the sink upsert is called once, only
\* after the analysis returned successfully and with a record of status
\* processed; when the analysis fails the error propagates to the caller and
\* nothing is upserted.  The HTTP trigger answers an empty body with 400
\* without calling process_document_internal, and answers every processing
\* error with 500, never propagating it.
C38_UpsertOnceAfterSuccess ==
    /\ Len(sink) <= 1
    /\ Len(sink) = 1
          => /\ InternalCalled
             /\ outcome = "Succeeded"
             /\ error = NoError
             /\ sink[1].status = "processed"
             /\ sink[1].id = blob.document_id
             /\ sink[1].rawResult = ret
    /\ (bpc = "processed" \/ (Responded /\ others.response.status_code = 200))
          => Len(sink) = 1
    /\ AnalysisFailed
          => /\ sink = <<>>
             /\ error # NoError
             /\ bpc \in {"analyzing", "propagated", "responded"}
             /\ (bpc = "propagated") => (raised = error)
             /\ Responded => /\ others.response.status_code = 500
                             /\ raised = error
    /\ (blob.body = "" /\ bpc # "http")
          => /\ Responded
             /\ others.response = BadRequest
             /\ ~InternalCalled
             /\ postLog = <<>>
             /\ sink = <<>>
    /\ (bpc # "http" /\ bpc # "responded") => others = NoOthers
    /\ (Responded /\ error # NoError)
          => /\ others.response.status_code = 500
             /\ sink = <<>>
    /\ bpc # "raised"

\* a failed analysis was answered with 500 and nothing was upserted
C38_Witness ==
    /\ Responded
    /\ outcome = "AnalysisFailedError"
    /\ others.response.status_code = 500
    /\ sink = <<>>

----------------------------------------------------------------------------
(* The Authenticator called on its own, as its unit tests call it *)

AuthArguments ==
    [credential : {"DefaultAzureCredential", "ManagedIdentityCredential", None},
     key : {"key-1", "should-not-use", "", None}]

AuthTokens == {"eyJ0eXAi", "eyJhbGci", "eyJraWQi", "eyJ4NXQi"}

AuthInit ==
    /\ pc = "idle"
    /\ api_key = None
    /\ content_type = None
    /\ max_retries = DefaultMaxRetries
    /\ retry_interval = DefaultRetryInterval
    /\ operation_location = None
    /\ headers = [id |-> 0, h |-> <<>>]
    /\ retries = 0
    /\ nbuilt = 0
    /\ postLog = <<>>
    /\ getLog = <<>>
    /\ sleeps = 0
    /\ slept = 0
    /\ outcome = "Pending"
    /\ error = NoError
    /\ ret = NoValue
    /\ env \in AuthArguments
    /\ blob = [name |-> <<>>]
    /\ bpc = "auth"
    /\ results = NoValue
    /\ sink = <<>>
    /\ raised = NoError
    /\ others = NoOthers

\* the token requested from the token provider
AuthGetToken(token) ==
    /\ bpc = "auth"
    /\ env.credential # None
    /\ results' = [token |-> token]
    /\ bpc' = "token"
    /\ UNCHANGED <<pc, api_key, content_type, max_retries, retry_interval,
                   operation_location, headers, retries, nbuilt, postLog,
                   getLog, sleeps, slept, outcome, error, ret, env, blob,
                   sink, raised>>
    /\ UNCHANGED others

\* the header set returned, or the failure
AuthBuild ==
    /\ \/ bpc = "token"
       \/ bpc = "auth" /\ env.credential = None
    /\ bpc' = "built"
    /\ IF AuthRaises(env.credential, env.key)
       THEN /\ error' = NoAuthenticationError
            /\ UNCHANGED <<headers, nbuilt>>
       ELSE /\ headers' = [id |-> nbuilt + 1,
                           h |-> GetAuthHeaders(env.credential, env.key,
                                     IF bpc = "token" THEN results.token ELSE "")]
            /\ nbuilt' = nbuilt + 1
            /\ UNCHANGED error
    /\ UNCHANGED <<pc, api_key, content_type, max_retries, retry_interval,
                   operation_location, retries, postLog, getLog, sleeps, slept,
                   outcome, ret, env, blob, results, sink, raised>>
    /\ UNCHANGED others

AuthNext ==
    \/ \E token \in AuthTokens : AuthGetToken(token)
    \/ AuthBuild
    \/ EventNext

\* the Authenticator on its own, and inside the event-driven pipeline
AuthSpec == (AuthInit \/ EventInit) /\ [][AuthNext]_vars

\* a token provider and a subscription key are both supplied
BothSupplied == env.credential # None /\ ~Falsy(env.key)

BearerOnly(h) == H_Authorization \in DOMAIN h /\ H_SubscriptionKey \notin DOMAIN h

AtMostOneAuthHeader(h) ==
    ~(H_Authorization \in DOMAIN h /\ H_SubscriptionKey \in DOMAIN h)

\* C11: when both a token provider and a subscription key are supplied, the
\* header set used for the request is the bearer-token header only: the
\* subscription-key header is never sent, and at most one of the two
\* authentication headers is present in any request.
C11_BearerOnlyWhenBoth ==
    /\ \A i \in 1..Len(postLog) :
           /\ AtMostOneAuthHeader(postLog[i].headers)
           /\ BothSupplied => BearerOnly(postLog[i].headers)
    /\ \A k \in 1..Len(getLog) :
           /\ AtMostOneAuthHeader(getLog[k].headers)
           /\ BothSupplied => BearerOnly(getLog[k].headers)
    /\ (headers.id # 0)
           => /\ AtMostOneAuthHeader(headers.h)
              /\ BothSupplied => BearerOnly(headers.h)

\* the Authenticator called with a token provider and the key "should-not-use"
C11_Witness ==
    /\ bpc = "built"
    /\ env.credential # None
    /\ env.key = "should-not-use"
    /\ headers.h = (H_Authorization :> "Bearer eyJ0eXAi")

----------------------------------------------------------------------------
(* The path-based entry point: analyze_document_from_path *)

\* endpoint, api_key and analyzer_name as the caller passes them
PathArguments ==
    { [endpoint |-> None, key |-> None, analyzer |-> None],
      [endpoint |-> None, key |-> "arg-key", analyzer |-> None] }

PathFiles ==
    [name : {<<"d", "o", "c", "s", "/", "a", ".", "p", "d", "f">>}, exists : BOOLEAN, args : PathArguments]

\* endpoint = endpoint or config[...], and so for the key and the analyzer
EffectiveConfig(args, e) ==
    LET config == GetCredentialsFromEnv(e)
    IN  [endpoint |-> IF Falsy(args.endpoint)
                      THEN config.CONTENT_UNDERSTANDING_ENDPOINT ELSE args.endpoint,
         key |-> IF Falsy(args.key)
                 THEN config.CONTENT_UNDERSTANDING_KEY ELSE args.key,
         analyzer |-> IF Falsy(args.analyzer)
                      THEN config.ANALYZER_NAME ELSE args.analyzer]

\* raise FileNotFoundError(f"Document file not found: {file_path}")
DocumentNotFoundError(path) ==
    [type |-> "FileNotFoundError", kind |-> "FileNotFoundError",
     message |-> "Document file not found: " \o Join(path)]

\* raise ValueError("Missing required credentials. ...")
MissingCredentialsError ==
    [type |-> "ValueError", kind |-> "ConfigurationError",
     message |-> "Missing required credentials. Provide them as arguments or set environment variables."]

PathInit ==
    /\ pc = "idle"
    /\ api_key = None
    /\ content_type = None
    /\ max_retries = DefaultMaxRetries
    /\ retry_interval = DefaultRetryInterval
    /\ operation_location = None
    /\ headers = [id |-> 0, h |-> <<>>]
    /\ retries = 0
    /\ nbuilt = 0
    /\ postLog = <<>>
    /\ getLog = <<>>
    /\ sleeps = 0
    /\ slept = 0
    /\ outcome = "Pending"
    /\ error = NoError
    /\ ret = NoValue
    /\ env \in Envs
    /\ blob \in PathFiles
    /\ bpc = "path"
    /\ results = NoValue
    /\ sink = <<>>
    /\ raised = NoError
    /\ others = NoOthers

\* analyze_document_from_path up to the call of submit_document
PathStart ==
    /\ bpc = "path"
    /\ IF ~blob.exists
       THEN /\ error' = DocumentNotFoundError(blob.name)
            /\ raised' = error'
            /\ bpc' = "propagated"
            /\ UNCHANGED <<pc, api_key, content_type>>
       ELSE LET config == EffectiveConfig(blob.args, env)
            IN  IF Falsy(config.endpoint) \/ Falsy(config.key)
                      \/ Falsy(config.analyzer)
                THEN /\ error' = MissingCredentialsError
                     /\ raised' = error'
                     /\ bpc' = "propagated"
                     /\ UNCHANGED <<pc, api_key, content_type>>
                ELSE /\ api_key' = config.key
                     /\ content_type' = GetContentType(PathName(blob.name))
                     /\ pc' = "submit"
                     /\ bpc' = "called"
                     /\ UNCHANGED <<error, raised>>
    /\ UNCHANGED <<max_retries, retry_interval, operation_location, headers,
                   retries, nbuilt, postLog, getLog, sleeps, slept, outcome,
                   ret, env, blob, results, sink>>
    /\ UNCHANGED others

\* the end of analyze_document inside analyze_document_from_path: the error
\* leaves both, or process_results returns
PathFinish(now) ==
    /\ bpc = "called"
    /\ pc = "done"
    /\ IF error # NoError
       THEN /\ raised' = error
            /\ bpc' = "propagated"
            /\ UNCHANGED <<error, results>>
       ELSE IF CustomExtractionRaises(ret)
       THEN /\ error' = ExtractionTypeError
            /\ raised' = ExtractionTypeError
            /\ bpc' = "propagated"
            /\ UNCHANGED results
       ELSE /\ results' = ProcessResults(ret, PathName(blob.name),
                              EffectiveConfig(blob.args, env).analyzer, now)
            /\ bpc' = "result"
            /\ UNCHANGED <<error, raised>>
    /\ UNCHANGED <<pc, api_key, content_type, max_retries, retry_interval,
                   operation_location, headers, retries, nbuilt, postLog,
                   getLog, sleeps, slept, outcome, ret, env, blob, sink>>
    /\ UNCHANGED others

PathNext ==
    \/ PathStart
    \/ \E now \in Clock : PathFinish(now)

----------------------------------------------------------------------------
(* The three entry points together *)

PipelineInit == BlobInit \/ EventInit \/ PathInit

PipelineNext == BlobNext \/ EventNext \/ PathNext

PipelineSpec == PipelineInit /\ [][PipelineNext]_vars

\* the entry point of the invocation
Entry ==
    IF "uri" \in DOMAIN blob THEN "blob"
    ELSE IF "args" \in DOMAIN blob THEN "path"
    ELSE "event"

\* endpoint, key and analyzer as the entry point reads them
ConfigRead ==
    IF Entry = "blob"
    THEN EffectiveConfig([endpoint |-> None, key |-> None, analyzer |-> None], env)
    ELSE IF Entry = "path" THEN EffectiveConfig(blob.args, env)
    ELSE [endpoint |-> env.endpoint, key |-> env.key, analyzer |-> AnalyzerId(env)]

AnyMissing ==
    Falsy(ConfigRead.endpoint) \/ Falsy(ConfigRead.key) \/ Falsy(ConfigRead.analyzer)

\* there is a document to process
DocumentPresent == (Entry = "path") => blob.exists

InvocationOver == bpc \in {"returned", "raised", "processed", "propagated", "result"}

FailsBeforeSubmit ==
    /\ postLog = <<>>
    /\ getLog = <<>>
    /\ InvocationOver => (raised.kind = "ConfigurationError")

\* C13 as stated: if any of endpoint, analyzer identifier or key is empty or
\* absent when a document is processed, processing fails with
\* ConfigurationError before the document is submitted: no POST and no GET.
C13_AnyMissingFailsBeforeSubmit ==
    (AnyMissing /\ DocumentPresent) => FailsBeforeSubmit

\* what each entry point requires
RequiredMissing ==
    IF Entry = "event"
    THEN Falsy(env.endpoint) \/ (env.credential = None /\ Falsy(env.key))
    ELSE AnyMissing

\* C13 (amended): the blob-triggered pipeline and the path-based entry point
\* fail with ConfigurationError, before any POST or GET, when any of endpoint,
\* analyzer identifier or key is empty or absent; the event-driven pipeline
\* does so when the endpoint is empty or absent, or when the key is empty or
\* absent and no token provider is available.
C13_RequiredMissingFailsBeforeSubmit ==
    (RequiredMissing /\ DocumentPresent) => FailsBeforeSubmit

\* the blob trigger with an analyzer name set to the empty string
C13_Witness ==
    /\ Entry = "blob"
    /\ env.analyzer = ""
    /\ env.endpoint # "" /\ env.endpoint # None
    /\ env.key = "key-1"
    /\ bpc = "raised"
    /\ raised = MissingConfigurationError
    /\ postLog = <<>>

\* id is name with every "/" and every "." replaced by "_"
IsSafeName(id, name) ==
    /\ Len(id) = Len(name)
    /\ \A j \in 1..Len(name) :
           id[j] = IF name[j] \in {"/", "."} THEN "_" ELSE name[j]

\* id is the safe name followed by "_error"
IsSafeErrorName(id, name) ==
    /\ Len(id) = Len(name) + 6
    /\ IsSafeName(SubSeq(id, 1, Len(name)), name)
    /\ SubSeq(id, Len(name) + 1, Len(id)) = <<"_", "e", "r", "r", "o", "r">>

\* the source name a record carries
SourceName(r) == IF "blobName" \in DOMAIN r THEN r.blobName ELSE r.fileName

IsFailedRecord(r) ==
    "processingStatus" \in DOMAIN r /\ r.processingStatus = "failed"

\* C18 as stated: the identifier of every record is the source name with every
\* path separator and dot replaced by the safe separator, with the suffix
\* "_error" on a failure record, so that the same name always yields the same
\* identifier.
C18_IdentifierFromName ==
    \A i \in 1..Len(sink) :
        IF IsFailedRecord(sink[i])
        THEN IsSafeErrorName(sink[i].id, SourceName(sink[i]))
        ELSE IsSafeName(sink[i].id, SourceName(sink[i]))

\* C18 (amended): in the blob-triggered pipeline the identifier is the blob
\* name ("unknown" when the blob has none) with every path separator and dot
\* replaced by the safe separator, with the suffix "_error" on a failure
\* record; the event-driven pipeline gives each processing a random identifier
\* that does not depend on the name, and hands over no failure record.
C18_BlobIdentifierFromName ==
    \A i \in 1..Len(sink) :
        IF Entry = "blob"
        THEN /\ SourceName(sink[i]) = BlobName(blob)
             /\ IF IsFailedRecord(sink[i])
                THEN IsSafeErrorName(sink[i].id, BlobName(blob))
                ELSE IsSafeName(sink[i].id, BlobName(blob))
        ELSE /\ Entry = "event"
             /\ ~IsFailedRecord(sink[i])
             /\ sink[i].id \in Uuids
             /\ sink[i].id = blob.document_id
             /\ sink[i].documentId = sink[i].id

\* the completed record of the blob "v1.2/doc"
C18_Witness ==
    /\ Entry = "blob"
    /\ blob.name = <<"v", "1", ".", "2", "/", "d", "o", "c">>
    /\ Len(sink) = 1
    /\ sink[1].processingStatus = "completed"
    /\ sink[1].id = <<"v", "1", "_", "2", "_", "d", "o", "c">>

----------------------------------------------------------------------------
(* Two invocations on one worker *)
(*                                                                         *)
(* submit_document, poll_for_results and process_results called in turn for *)
(* two documents, the calls of the one interleaved with those of the other  *)
(* at any step.  The variables hold the locals of the invocation that runs, *)
(* `others` those of the invocation that waits.                             *)

PairMaxRetries == 2

Url2 == "https://svc/contentunderstanding/analyzers/b/operations/2"

PairSubmitResponses ==
    { [status_code |-> 202, text |-> "",
       headers |-> (H_RequestId :> "req-1") @@ (H_OperationLocation :> Url1)],
      [status_code |-> 202, text |-> "",
       headers |-> (H_RequestId :> "req-2") @@ (H_operation_location :> Url2)],
      [status_code |-> 400, text |-> "Bad Request",
       headers |-> (H_RequestId :> "req-3")] }

PairPollResponses ==
    { [status_code |-> 200, text |-> "", body |-> [status |-> S_Running]],
      [status_code |-> 200, text |-> "",
       body |-> [status |-> S_Succeeded, result |-> InvoiceRawResult]],
      [status_code |-> 500, text |-> "Service Unavailable",
       body |-> [status |-> S_Running]] }

\* the names that are bound at module level and assigned while a document is
\* processed: the code has none, every name it assigns is a local
ModuleLevelState_Retries == {"retries"}

ModuleLevelState == {}

\* the locals of the invocation that runs
Locals ==
    [pc |-> pc,
     api_key |-> api_key,
     content_type |-> content_type,
     max_retries |-> max_retries,
     retry_interval |-> retry_interval,
     operation_location |-> operation_location,
     headers |-> headers,
     retries |-> retries,
     nbuilt |-> nbuilt,
     postLog |-> postLog,
     getLog |-> getLog,
     sleeps |-> sleeps,
     slept |-> slept,
     outcome |-> outcome,
     error |-> error,
     ret |-> ret,
     blob |-> blob,
     results |-> results]

\* the locals of an invocation that has not started
InitialLocals(key, ctype, document, max, interval) ==
    [pc |-> "submit", api_key |-> key, content_type |-> ctype,
     max_retries |-> max, retry_interval |-> interval,
     operation_location |-> None, headers |-> [id |-> 0, h |-> <<>>],
     retries |-> 0, nbuilt |-> 0, postLog |-> <<>>, getLog |-> <<>>,
     sleeps |-> 0, slept |-> 0, outcome |-> "Pending", error |-> NoError,
     ret |-> NoValue, blob |-> document, results |-> NoValue]

PairInit ==
    /\ \E m1 \in 1..PairMaxRetries, m2 \in 1..PairMaxRetries :
          LET first == InitialLocals("key-1", "application/pdf",
                           [name |-> <<"a", ".", "p", "d", "f">>,
                            analyzer |-> "invoice-analyzer"], m1, 1)
              second == InitialLocals("key-2", "image/png",
                            [name |-> <<"b", ".", "p", "n", "g">>,
                             analyzer |-> "receipt-analyzer"], m2, 2)
          IN  /\ others = [id |-> 2, st |-> second]
              /\ pc = first.pc
              /\ api_key = first.api_key
              /\ content_type = first.content_type
              /\ max_retries = first.max_retries
              /\ retry_interval = first.retry_interval
              /\ operation_location = first.operation_location
              /\ headers = first.headers
              /\ retries = first.retries
              /\ nbuilt = first.nbuilt
              /\ postLog = first.postLog
              /\ getLog = first.getLog
              /\ sleeps = first.sleeps
              /\ slept = first.slept
              /\ outcome = first.outcome
              /\ error = first.error
              /\ ret = first.ret
              /\ blob = first.blob
              /\ results = first.results
    /\ env = [endpoint |-> None, key |-> None, analyzer |-> None]
    /\ bpc = "idle"
    /\ sink = <<>>
    /\ raised = NoError

\* what a name holds when the waiting invocation runs again
Resume(name, current) ==
    IF name \in ModuleLevelState THEN current ELSE others.st[name]

\* the worker turns from the one invocation to the other
PairSwitch ==
    /\ others.id # 0
    /\ others' = [id |-> 3 - others.id, st |-> Locals]
    /\ pc' = Resume("pc", pc)
    /\ api_key' = Resume("api_key", api_key)
    /\ content_type' = Resume("content_type", content_type)
    /\ max_retries' = Resume("max_retries", max_retries)
    /\ retry_interval' = Resume("retry_interval", retry_interval)
    /\ operation_location' = Resume("operation_location", operation_location)
    /\ headers' = Resume("headers", headers)
    /\ retries' = Resume("retries", retries)
    /\ nbuilt' = Resume("nbuilt", nbuilt)
    /\ postLog' = Resume("postLog", postLog)
    /\ getLog' = Resume("getLog", getLog)
    /\ sleeps' = Resume("sleeps", sleeps)
    /\ slept' = Resume("slept", slept)
    /\ outcome' = Resume("outcome", outcome)
    /\ error' = Resume("error", error)
    /\ ret' = Resume("ret", ret)
    /\ blob' = Resume("blob", blob)
    /\ results' = Resume("results", results)
    /\ UNCHANGED <<env, bpc, sink, raised>>

\* process_results(results, filename, analyzer_name)
PairProcess(now) ==
    /\ others.id # 0
    /\ pc = "done"
    /\ outcome = "Succeeded"
    /\ error = NoError
    /\ IF CustomExtractionRaises(ret)
       THEN /\ error' = ExtractionTypeError
            /\ UNCHANGED <<pc, results>>
       ELSE /\ results' = ProcessResults(ret, blob.name, blob.analyzer, now)
            /\ pc' = "returned"
            /\ UNCHANGED error
    /\ UNCHANGED <<api_key, content_type, max_retries, retry_interval,
                   operation_location, headers, retries, nbuilt, postLog,
                   getLog, sleeps, slept, outcome, ret, env, blob, bpc, sink,
                   raised, others>>

PairNext ==
    \/ PairSwitch
    \/ \E resp \in PairSubmitResponses : SubmitDocument(resp)
    \/ PollEnter
    \/ \E resp \in PairPollResponses : PollGet(resp)
    \/ PollSleep
    \/ PollTimeout
    \/ \E now \in Clock : PairProcess(now)

PairSpec == PairInit /\ [][PairNext]_vars

\* the status checks of invocation r that reported the analysis in progress
InProgressChecks(r) ==
    {k \in 1..Len(r.getLog) :
        /\ r.getLog[k].resp.status_code = 200
        /\ Lower(r.getLog[k].resp.body.status) \in {S_running, S_notstarted}}

\* the submit POST of invocation r was accepted and named an operation
Accepted(r) ==
    /\ Len(r.postLog) = 1
    /\ r.postLog[1].resp.status_code = 202
    /\ \E name \in DOMAIN r.postLog[1].resp.headers :
          /\ Lower(name) = H_operation_location
          /\ r.postLog[1].resp.headers[name] = r.operation_location

\* what invocation r sent carries its own key and content type, and goes to the
\* operation its own submission named
OwnRequests(r) ==
    /\ Len(r.postLog) <= 1
    /\ \A i \in 1..Len(r.postLog) :
          /\ r.postLog[i].headers[H_SubscriptionKey] = r.api_key
          /\ r.postLog[i].headers[H_ContentType] = r.content_type
    /\ \A k \in 1..Len(r.getLog) :
          /\ Accepted(r)
          /\ r.getLog[k].headers[H_SubscriptionKey] = r.api_key
          /\ r.getLog[k].url = r.operation_location

\* the counters of invocation r follow from its own status checks alone
OwnProgress(r) ==
    /\ Len(r.getLog) <= r.max_retries
    /\ \A k \in 1..(Len(r.getLog) - 1) : k \in InProgressChecks(r)
    /\ r.sleeps = Cardinality(InProgressChecks(r))
                      - (IF r.pc = "sleep" THEN 1 ELSE 0)
    /\ r.retries = r.sleeps
    /\ r.slept = r.sleeps * r.retry_interval

\* the outcome of invocation r is the one its own inputs and responses give
OwnOutcome(r) ==
    LET n == Len(r.getLog)
        last == r.getLog[n].resp
    IN  /\ (r.pc \in {"submit", "poll", "loop", "sleep"})
               => (r.outcome = "Pending" /\ r.error = NoError /\ r.ret = NoValue)
        /\ (r.pc \in {"done", "returned"})
               => IF ~Accepted(r)
                  THEN r.outcome = "SubmissionError" /\ n = 0
                  ELSE IF n = Cardinality(InProgressChecks(r))
                  THEN /\ r.outcome = "TimeoutError"
                       /\ n = r.max_retries
                       /\ r.error.seconds = r.max_retries * r.retry_interval
                  ELSE IF last.status_code # 200
                  THEN /\ r.outcome = "PollError"
                       /\ r.error.code = last.status_code
                  ELSE /\ r.outcome = "Succeeded"
                       /\ Lower(last.body.status) = S_succeeded
                       /\ r.ret = last.body.result
        /\ (r.pc = "returned")
               => /\ r.results.metadata.filename = r.blob.name
                  /\ r.results.metadata.analyzer_name = r.blob.analyzer
                  /\ r.results.extracted_fields
                         = ExtractedFields(SelectFields(r.ret))
        /\ (r.pc # "returned") => (r.results = NoValue)

----------------------------------------------------------------------------
(* Content-type inference: get_content_type of utils.py and                 *)
(* _get_content_type of function_app.py, each applied to one file name      *)

\* content_type_map of get_content_type, by extension without the dot
ContentTypeMap ==
    [pdf |-> "application/pdf",
     jpg |-> "image/jpeg",
     jpeg |-> "image/jpeg",
     png |-> "image/png",
     bmp |-> "image/bmp",
     tiff |-> "image/tiff",
     tif |-> "image/tiff",
     gif |-> "image/gif"]

\* content_types of _get_content_type
ContentTypesTable ==
    [pdf |-> "application/pdf",
     png |-> "image/png",
     jpg |-> "image/jpeg",
     jpeg |-> "image/jpeg",
     tiff |-> "image/tiff",
     tif |-> "image/tiff",
     bmp |-> "image/bmp",
     docx |-> "application/vnd.openxmlformats-officedocument.wordprocessingml.document",
     xlsx |-> "application/vnd.openxmlformats-officedocument.spreadsheetml.sheet",
     pptx |-> "application/vnd.openxmlformats-officedocument.presentationml.presentation"]

\* file_name.lower().split(".")[-1] if "." in file_name else ""
SplitExtension(file_name) ==
    LET lowered == Lower(file_name)
        i == LastIndexOf(lowered, ".")
    IN  IF i = 0 THEN <<>> ELSE SubSeq(lowered, i + 1, Len(lowered))

\* _get_content_type
AppGetContentType(file_name) ==
    LET extension == Join(SplitExtension(file_name))
    IN  IF extension \in DOMAIN ContentTypesTable
        THEN ContentTypesTable[extension]
        ELSE OctetStream

(* Inputs: a file name is a directory, a stem and, after a dot, an extension *)

NameDirs ==
    { <<>>, <<"d", "/">>, <<"a", ".", "p", "d", "f", "/">>, <<"v", ".", "1", "/">> }

NameStems == { <<"f">>, <<"v", "1", ".", "2">>, <<"a", ".", "p", "n", "g">>, <<>> }

\* the text after the last dot, and the extension it is a spelling of
NameExtensions ==
    { [text |-> <<"p", "d", "f">>, is |-> "pdf"],
      [text |-> <<"P", "D", "F">>, is |-> "pdf"],
      [text |-> <<"P", "d", "f">>, is |-> "pdf"],
      [text |-> <<"p", "n", "g">>, is |-> "png"],
      [text |-> <<"P", "N", "G">>, is |-> "png"],
      [text |-> <<"j", "p", "g">>, is |-> "jpg"],
      [text |-> <<"J", "P", "G">>, is |-> "jpg"],
      [text |-> <<"j", "p", "e", "g">>, is |-> "jpeg"],
      [text |-> <<"J", "p", "e", "g">>, is |-> "jpeg"],
      [text |-> <<"t", "i", "f", "f">>, is |-> "tiff"],
      [text |-> <<"T", "I", "F", "F">>, is |-> "tiff"],
      [text |-> <<"t", "i", "f">>, is |-> "tif"],
      [text |-> <<"b", "m", "p">>, is |-> "bmp"],
      [text |-> <<"B", "M", "P">>, is |-> "bmp"],
      [text |-> <<"g", "i", "f">>, is |-> "gif"],
      [text |-> <<"G", "I", "F">>, is |-> "gif"],
      [text |-> <<"d", "o", "c", "x">>, is |-> "docx"],
      [text |-> <<"D", "O", "C", "X">>, is |-> "docx"],
      [text |-> <<"x", "l", "s", "x">>, is |-> "xlsx"],
      [text |-> <<"p", "p", "t", "x">>, is |-> "pptx"],
      [text |-> <<"x", "y", "z">>, is |-> "other"],
      [text |-> <<"p", "d">>, is |-> "other"],
      [text |-> <<"p", "d", "f", "x">>, is |-> "other"],
      [text |-> <<>>, is |-> "other"] }

NoExtension == [text |-> <<>>, is |-> "none"]

\* names of files: every name has a stem or an extension, and a name without
\* extension has a stem that ends in none
NameParts ==
    { n \in [dir : NameDirs, stem : NameStems,
             ext : NameExtensions \cup {NoExtension}] :
        /\ n.ext.is = "none" => n.stem \in {<<"f">>, <<"v", "1", ".", "2">>}
        /\ n.stem # <<>> \/ n.ext.text # <<>> }

NameOf(n) ==
    n.dir \o n.stem \o (IF n.ext.is = "none" THEN <<>> ELSE <<".">> \o n.ext.text)

ContentTypeInit ==
    /\ pc = "done"
    /\ api_key = "key-1"
    /\ content_type = None
    /\ max_retries = 0
    /\ retry_interval = 1
    /\ operation_location = None
    /\ headers = [id |-> 0, h |-> <<>>]
    /\ retries = 0
    /\ nbuilt = 0
    /\ postLog = <<>>
    /\ getLog = <<>>
    /\ sleeps = 0
    /\ slept = 0
    /\ outcome = "Pending"
    /\ error = NoError
    /\ ret \in NameParts
    /\ env = [endpoint |-> None, key |-> None, analyzer |-> None]
    /\ blob = [name |-> None, uri |-> None, length |-> 0]
    /\ bpc = "name"
    /\ results = NoValue
    /\ sink = <<>>
    /\ raised = NoError
    /\ others = NoOthers

\* content_type = get_content_type(filename)
InferFromPath ==
    /\ bpc = "name"
    /\ bpc' = "inferred"
    /\ content_type' = GetContentType(NameOf(ret))
    /\ results' = [by |-> "get_content_type"]
    /\ UNCHANGED <<pc, api_key, max_retries, retry_interval,
                   operation_location, headers, retries, nbuilt, postLog,
                   getLog, sleeps, slept, outcome, error, ret, env, blob, sink,
                   raised, others>>

\* _get_content_type(file_name)
InferFromName ==
    /\ bpc = "name"
    /\ bpc' = "inferred"
    /\ content_type' = AppGetContentType(NameOf(ret))
    /\ results' = [by |-> "_get_content_type"]
    /\ UNCHANGED <<pc, api_key, max_retries, retry_interval,
                   operation_location, headers, retries, nbuilt, postLog,
                   getLog, sleeps, slept, outcome, error, ret, env, blob, sink,
                   raised, others>>

ContentTypeNext == InferFromPath \/ InferFromName

ContentTypeSpec == ContentTypeInit /\ [][ContentTypeNext]_vars

\* the table of the function that was applied
TableUsed == IF results.by = "get_content_type" THEN ContentTypeMap ELSE ContentTypesTable

\* the name has an extension for the function that was applied: pathlib takes
\* no suffix from a name that starts with its only dot
HasExtension ==
    /\ ret.ext.is # "none"
    /\ (results.by = "get_content_type") => (ret.stem # <<>>)

====
